---- MODULE Spec2Model ----
(***************************************************************************)
(* Model of the SoroScan ingest pipeline                                   *)
(* (django-backend/soroscan/ingest): the event store with its natural-key  *)
(* constraint, the live-sync task and the windowed backfill task with its  *)
(* durable per-contract cursor.                                            *)
(*                                                                         *)
(* Tasks run in slots of a worker pool.  Every database statement or       *)
(* network call of a task is one step, so that tasks interleave exactly    *)
(* where the code reads or writes shared state.                            *)
(***************************************************************************)
EXTENDS Integers, Sequences, FiniteSets, Bags, TLC

\* ------------------------------------------------------------------------
\* Program constants
\* ------------------------------------------------------------------------
\* A window of half the size.
BatchLedgerSizeHalved == 200 \div 2

BATCH_LEDGER_SIZE == 200

\* A retry budget one too high.
max_retries_plus_one == 3 + 1

max_retries == 3

\* A delivery with one retry less.
webhook_max_retries_less_one == 5 - 1

\* dispatch_webhook: max_retries, retry_backoff_max, and the countdown of a
\* retry that names none (Task.default_retry_delay, three minutes).
webhook_max_retries == 5

retry_backoff_max == 600

default_retry_delay == 3 * 60

\* ------------------------------------------------------------------------
\* Bounds of the model
\* ------------------------------------------------------------------------
\* Number of worker slots, i.e. of tasks that can be in flight together.
MaxTasks == 2

\* Highest ledger a backfill request names.
MaxLedger == 250

\* Number of tasks submitted in one behaviour.
MaxRuns == 3

\* Number of administrative changes in one behaviour.
MaxAdmin == 1

\* Connections the server process handles at a time.
MaxConnections == 6

\* SQL NULL / Python None of a nullable integer column or attribute.
None == 0 - 1

Min(a, b) == IF a <= b THEN a ELSE b

Max(a, b) == IF a >= b THEN a ELSE b

\* ------------------------------------------------------------------------
\* The world outside: tracked contracts, their ABIs and schemas, and the
\* events the upstream ledger RPC holds.
\* ------------------------------------------------------------------------
\* contract_id values of the TrackedContract rows (all active).
TrackedIds == {"c1"}

\* Event types the ContractABI row of a contract defines; c1 has an ABI.
AbiEventTypes(contract_id) == IF contract_id = "c1" THEN {"transfer"} ELSE {}

HasAbi(contract_id) == contract_id = "c1"

\* EventSchema rows: c1 has versions 1 and 2 for "transfer"; version 2
\* requires the key "amount".
EventSchemas ==
    { [contract |-> "c1", event_type |-> "transfer", version |-> 1, required |-> {}],
      [contract |-> "c1", event_type |-> "transfer", version |-> 2, required |-> {"amount"}] }

\* The events the upstream holds, in ledger order: two in one ledger of the
\* first window and one in the second window, which is the second event of
\* its ledger (the first one belongs to a contract that is not tracked).  event_index = None means the
\* SDK object carries no index attribute; id_suffix = None means its id has
\* no numeric suffix after the last '-'.
UpstreamEvents ==
    << [contract_id |-> "c1", ledger |-> 30, event_index |-> 0, id_suffix |-> None,
        tx_hash |-> "t1", type |-> "transfer", value |-> [amount |-> 150], xdr |-> "ok"],
       [contract_id |-> "c1", ledger |-> 30, event_index |-> None, id_suffix |-> None,
        tx_hash |-> "t2", type |-> "transfer", value |-> [memo |-> 7], xdr |-> ""],
       [contract_id |-> "c1", ledger |-> 240, event_index |-> 1, id_suffix |-> None,
        tx_hash |-> "t3", type |-> "mint", value |-> [amount |-> 50], xdr |-> "ok"] >>

EventIds == 1 .. Len(UpstreamEvents)

\* The arguments backfill requests are submitted with: ranges of one and of
\* two windows, a range that starts at the second window, the three kinds of
\* invalid range, and a contract_id that names no TrackedContract row.
BackfillArgs ==
    { << "c1", 1, BATCH_LEDGER_SIZE >>,
      << "c1", 1, MaxLedger >>,
      << "c1", BATCH_LEDGER_SIZE + 1, MaxLedger >>,
      << "c1", 0, BATCH_LEDGER_SIZE >>,
      << "c1", 1, 0 >>,
      << "c1", BATCH_LEDGER_SIZE + 1, BATCH_LEDGER_SIZE >>,
      << "cX", 1, MaxLedger >> }

\* ------------------------------------------------------------------------
\* Pure helpers of tasks.py and stellar_client.py
\* ------------------------------------------------------------------------
\* _extract_event_index: explicit index, else numeric id suffix, else the
\* caller's positional counter.
ExtractEventIndex(event, fallback_index) ==
    IF event.event_index # None THEN event.event_index
    ELSE IF event.id_suffix # None THEN event.id_suffix
    ELSE fallback_index

\* A range check that only compares the two bounds.
InvalidRangeOrderOnly(start_ledger, end_ledger) == start_ledger > end_ledger

\* The range check at the head of backfill_contract_events (after _safe_int,
\* which maps a non-integer argument to 0).
InvalidRange(start_ledger, end_ledger) ==
    start_ledger <= 0 \/ end_ledger <= 0 \/ start_ledger > end_ledger

\* A resume point that ignores the cursor.
NextLedgerIgnoresCursor(start_ledger, cursor) == start_ledger

\* The resume point of a backfill.
NextLedger(start_ledger, cursor) ==
    IF cursor # None THEN Max(start_ledger, cursor + 1) ELSE start_ledger

\* End of the window that starts at batch_start.
BatchEnd(batch_start, end_ledger) ==
    Min(batch_start + BATCH_LEDGER_SIZE - 1, end_ledger)

\* A step that makes the next window start on the last ledger of this one.
NextBatchStartOverlaps(batch_start) == batch_start + BATCH_LEDGER_SIZE - 1

\* The step of range(next_ledger, end_ledger + 1, BATCH_LEDGER_SIZE).
NextBatchStart(batch_start) == batch_start + BATCH_LEDGER_SIZE

\* SorobanClient.get_events_range: the upstream's events of one contract in
\* an inclusive ledger range, as ids into UpstreamEvents, in upstream order.
GetEventsRange(contract_id, start_ledger, end_ledger) ==
    IF start_ledger > end_ledger THEN << >>
    ELSE SelectSeq([k \in EventIds |-> k],
                   LAMBDA k : /\ UpstreamEvents[k].contract_id = contract_id
                              /\ start_ledger <= UpstreamEvents[k].ledger
                              /\ UpstreamEvents[k].ledger <= end_ledger)

\* ContractEvent.save: the payload hash is computed when it is not set yet
\* and the payload is non-empty.  A hash is modelled by the value it hashes.
PayloadHash(payload_hash, payload) ==
    IF payload_hash = << >> /\ DOMAIN payload # {} THEN << payload >> ELSE payload_hash

\* Highest-version EventSchema for (contract, event_type), {} when none.
LatestSchema(contract_id, event_type) ==
    LET S == { s \in EventSchemas : s.contract = contract_id /\ s.event_type = event_type }
    IN  { s \in S : \A o \in S : o.version <= s.version }

\* validate_event_payload: <<passed, version_used>>.
ValidateEventPayload(contract_id, event_type, payload) ==
    LET L == LatestSchema(contract_id, event_type)
    IN  IF L = {} THEN << TRUE, None >>
        ELSE LET s == CHOOSE x \in L : TRUE
             IN  << s.required \subseteq DOMAIN payload, s.version >>

\* decode_event_payload seen from _try_decode_event: the decoding_status and
\* decoded_payload that end up on a new row.  No ABI row, or no raw binary:
\* "no_abi"; no definition for the type, or unparseable binary: "failed".
TryDecode(contract_id, event_type, raw_xdr, payload) ==
    IF ~HasAbi(contract_id) \/ raw_xdr = "" THEN [status |-> "no_abi", decoded |-> << >>]
    ELSE IF raw_xdr = "bad" \/ event_type \notin AbiEventTypes(contract_id)
         THEN [status |-> "failed", decoded |-> << >>]
         ELSE [status |-> "success", decoded |-> << payload >>]

\* ------------------------------------------------------------------------
\* State
\* ------------------------------------------------------------------------
VARIABLES
    mode,                 \* how tasks are scheduled (fixed by the specification)
    last_indexed_ledger,  \* TrackedContract.last_indexed_ledger per contract
    ContractEvent,        \* the ContractEvent table, a bag of rows
    horizon_cursor,       \* IndexerState "horizon_cursor": None is "now"
    fanout,               \* bag of process_new_event messages scheduled
    task,                 \* the worker slots
    runs,                 \* tasks submitted so far
    subscription,         \* the WebhookSubscription table, by primary key
    endpoint,             \* how the target of each subscription behaves
    delivery,             \* the dispatch_webhook task of each (subscription, event)
    delivery_log,         \* the WebhookDeliveryLog table, a bag of rows
    channel,              \* messages published to the groups events_<contract_id>
    alerts,               \* bag of evaluate_alert_rules tasks scheduled, by event
    posts,                \* HTTP POSTs sent so far
    admin,                \* administrative changes made so far
    alert_rule,           \* the AlertRule table, by primary key
    alert_eval,           \* what evaluate_alert_rules returned, by event
    alert_send,           \* the send_alert task of each (rule, event)
    alert_execution,      \* the AlertExecution table, a bag of rows
    call,                 \* the arguments of a function under test
    ret,                  \* what that function returned or raised
    active_subscriptions, \* SubscriptionRateLimitMiddleware._active_subscriptions
    connection            \* the ASGI connections of the server process

hookvars == << subscription, endpoint, delivery, delivery_log, channel, alerts, posts, admin >>

alertvars == << alert_rule, alert_eval, alert_send, alert_execution >>

purevars == << call, ret >>

wsvars == << active_subscriptions, connection >>

vars == << mode, last_indexed_ledger, ContractEvent, horizon_cursor, fanout, task, runs,
           hookvars, alertvars, purevars, wsvars >>

\* No function is under test.
NoCall ==
    /\ call = [fn |-> "none"]
    /\ ret = [done |-> FALSE]

\* No alert rule, no alert task.
NoAlerts ==
    /\ alert_rule = << >>
    /\ alert_eval = << >>
    /\ alert_send = << >>
    /\ alert_execution = EmptyBag

\* The clients of the websocket endpoint, by the address _get_client_ip
\* resolves for them.
ClientIps == {"ip1", "ip2"}

\* An ASGI connection the server is not handling: outcome is how its last
\* handling ended, close_code the code of a websocket.close sent to it.
IdleConnection ==
    [pc |-> "idle", type |-> "none", client_ip |-> "none", outcome |-> "none",
     close_code |-> None]

\* No connection is open and no address has a counter.
NoConnections ==
    /\ active_subscriptions = [ip \in ClientIps |-> 0]
    /\ connection = [c \in 1 .. MaxConnections |-> IdleConnection]

Slots == 1 .. MaxTasks

\* The subscriptions registered: their contract and event_type filter (an
\* empty filter matches every type); c2 is a contract of another owner.
Subscriptions ==
    [s1 |-> [contract |-> "c1", event_type |-> "transfer"],
     s2 |-> [contract |-> "c1", event_type |-> ""],
     s3 |-> [contract |-> "c1", event_type |-> "burn"],
     s4 |-> [contract |-> "c2", event_type |-> ""]]

SubIds == DOMAIN Subscriptions

\* The mutable fields of a WebhookSubscription row with their defaults;
\* exists is FALSE once the row has been deleted.
NewSubscription ==
    [exists |-> TRUE, is_active |-> TRUE, status |-> "active",
     failure_count |-> 0, last_triggered |-> None]

\* A dispatch_webhook task: where it stands, self.request.retries, the
\* response it is handling, the countdown of its last retry and its outcome.
IdleDelivery ==
    [pc |-> "none", retries |-> 0, status_code |-> None, retry_after |-> None,
     attempt_logged |-> FALSE,
     loaded_count |-> 0,       \* failure_count of the webhook object loaded
     countdown |-> << >>, result |-> "none"]

\* Primary key of an event row; rows are told apart by their transaction.
EventPk(row) == row.tx_hash

\* One dispatch_webhook task at most per subscription and event.
DeliveryKeys == SubIds \X { UpstreamEvents[k].tx_hash : k \in EventIds }

IdleTask ==
    [kind |-> "none", pc |-> "idle",
     contract_id |-> "c1", from_ledger |-> 0, to_ledger |-> 0,
     retries |-> 0,
     mem_cursor |-> None,      \* contract.last_indexed_ledger of the loaded object
     batch_start |-> 0, batch_end |-> 0,
     batch_events |-> << >>,   \* events being iterated, as ids into UpstreamEvents
     i |-> 0,                  \* 1-based position in batch_events
     created_events |-> 0, updated_events |-> 0, new_events |-> 0,
     \* history of the current execution
     start_cursor |-> None,    \* last_indexed_ledger read at task start
     windows |-> << >>,        \* windows requested from the upstream
     \* history of the request over its retries and restarts
     last_start |-> 0,         \* batch_start of the fetch that failed, or of the
                               \* last window requested before a kill
     restarted |-> FALSE,
     rows0 |-> EmptyBag,       \* the table when the request first started
     first_ledger |-> 0,       \* the resume point of its first execution
     rerun |-> FALSE,          \* same arguments as the successful run before it
     replayed |-> FALSE,       \* an upsert of this execution found its row with
                               \* the candidate's data already on it
     error |-> "none"]

\* A task is running from its first statement to its return or raise.
Running(t) == task[t].pc \notin {"idle", "queued", "done", "rejected", "failed", "killed"}

\* A request is open until it returns, is rejected or exhausts its retries.
Open(t) == task[t].pc \notin {"idle", "done", "rejected", "failed"}

\* Scheduling: "interleaved" lets every task step at any time; "sequential"
\* runs task executions one after another; "exclusive" also keeps other
\* tasks out between an execution and its retry or restart.
Sched(t) ==
    CASE mode = "interleaved" -> TRUE
      [] mode = "sequential"  -> \A u \in Slots \ {t} : ~Running(u)
      [] OTHER                 -> \A u \in Slots \ {t} : ~Open(u)

\* ------------------------------------------------------------------------
\* The event store
\* ------------------------------------------------------------------------
\* Number of rows of a table among the row values S.
RECURSIVE Copies(_, _)
Copies(table, S) ==
    IF S = {} THEN 0
    ELSE LET r == CHOOSE x \in S : TRUE
         IN  CopiesIn(r, table) + Copies(table, S \ {r})

\* Rows of a table matching the lookup of
\* update_or_create(contract, ledger, event_index).
KeyLookup(table, contract_id, ledger, event_index) ==
    { r \in BagToSet(table) : /\ r.contract = contract_id
                              /\ r.ledger = ledger
                              /\ r.event_index = event_index }

\* A lookup that never finds the row.
UpsertLookupMisses(contract_id, ledger, event_index) == {}

\* The lookup of update_or_create against the stored table.
UpsertLookup(contract_id, ledger, event_index) ==
    KeyLookup(ContractEvent, contract_id, ledger, event_index)

\* A table without the unique constraint.
UniqueOkUnenforced(contract_id, ledger, event_index) == TRUE

\* UniqueConstraint unique_contract_ledger_event_index: may this INSERT commit?
UniqueOk(contract_id, ledger, event_index) ==
    UpsertLookup(contract_id, ledger, event_index) = {}

InsertRow(table, row) == table (+) SetToBag({row})

ReplaceRow(table, old, new) == (table (-) SetToBag({old})) (+) SetToBag({new})

\* The candidate fields _upsert_contract_event reads off an upstream event.
Candidate(event, fallback_event_index) ==
    [ledger      |-> event.ledger,
     event_index |-> ExtractEventIndex(event, fallback_event_index),
     tx_hash     |-> event.tx_hash,
     event_type  |-> event.type,
     payload     |-> event.value,
     raw_xdr     |-> event.xdr]

\* The row update_or_create inserts: key, defaults, and the model's defaults.
NewRow(contract_id, c) ==
    [contract |-> contract_id, ledger |-> c.ledger, event_index |-> c.event_index,
     tx_hash |-> c.tx_hash, event_type |-> c.event_type, payload |-> c.payload,
     raw_xdr |-> c.raw_xdr,
     payload_hash |-> PayloadHash(<< >>, c.payload),
     validation_status |-> "passed", schema_version |-> None,
     decoded_payload |-> << >>, decoding_status |-> "no_abi"]

\* The row after update_or_create has set the defaults on it and saved it.
UpdatedRow(row, c) ==
    [row EXCEPT !.tx_hash = c.tx_hash, !.event_type = c.event_type,
                !.payload = c.payload, !.raw_xdr = c.raw_xdr,
                !.payload_hash = PayloadHash(row.payload_hash, c.payload)]

\* The new row after _try_decode_event has saved its two fields.
DecodedRow(row) ==
    LET d == TryDecode(row.contract, row.event_type, row.raw_xdr, row.payload)
    IN  [row EXCEPT !.decoding_status = d.status, !.decoded_payload = d.decoded]

StoreIdle ==
    /\ last_indexed_ledger = [c \in TrackedIds |-> None]
    /\ ContractEvent = EmptyBag
    /\ horizon_cursor = None
    /\ fanout = EmptyBag
    /\ task = [t \in Slots |-> IdleTask]
    /\ runs = 0
    /\ subscription = [s \in SubIds |-> NewSubscription]
    /\ endpoint = [s \in SubIds |-> "up"]
    /\ delivery = [k \in DeliveryKeys |-> IdleDelivery]
    /\ delivery_log = EmptyBag
    /\ channel = EmptyBag
    /\ alerts = EmptyBag
    /\ posts = 0
    /\ admin = 0

InitState == StoreIdle /\ NoAlerts /\ NoCall /\ NoConnections

\* ------------------------------------------------------------------------
\* Backfill: backfill_contract_events(contract_id, from_ledger, to_ledger)
\* ------------------------------------------------------------------------
\* A slot is free once its task has returned or raised for good.
Free(t) == task[t].pc \in {"idle", "done", "rejected", "failed"}

\* The pool hands a new task to its first free slot.
FirstFree(t) == Free(t) /\ \A u \in Slots : u < t => ~Free(u)

\* What a task leaves in its slot when it ends: its arguments and outcome.
Ended(r, pc, why) ==
    IF r.kind = "backfill" /\ pc = "done"
    THEN [IdleTask EXCEPT !.kind = r.kind, !.pc = pc, !.rerun = r.rerun,
                          !.contract_id = r.contract_id,
                          !.from_ledger = r.from_ledger, !.to_ledger = r.to_ledger]
    ELSE [IdleTask EXCEPT !.kind = r.kind, !.pc = pc, !.error = why,
                          !.last_start = IF pc = "failed" THEN r.last_start ELSE 0]

\* admin action / API call: backfill_contract_events.delay(...)
SubmitBackfill(t) ==
    /\ FirstFree(t)
    /\ runs < MaxRuns
    /\ runs' = runs + 1
    /\ Sched(t)
    /\ \E a \in BackfillArgs :
         task' = [task EXCEPT ![t] =
                    [IdleTask EXCEPT !.kind = "backfill", !.pc = "queued",
                                     !.contract_id = a[1],
                                     !.from_ledger = a[2], !.to_ledger = a[3],
                                     !.rerun = /\ task[t].kind = "backfill"
                                               /\ task[t].pc = "done"
                                               /\ task[t].contract_id = a[1]
                                               /\ task[t].from_ledger = a[2]
                                               /\ task[t].to_ledger = a[3]]]
    /\ UNCHANGED << purevars, alertvars, hookvars, mode, wsvars, last_indexed_ledger, ContractEvent, horizon_cursor, fanout >>

\* Lines 692-711: argument checks, contract lookup, resume point.
BackfillStart(t) ==
    LET r     == task[t]
        nl    == NextLedger(r.from_ledger, last_indexed_ledger[r.contract_id])
        first == r.retries = 0 /\ ~r.restarted
        r1    == [r EXCEPT
                    !.mem_cursor = last_indexed_ledger[r.contract_id],
                    !.start_cursor = last_indexed_ledger[r.contract_id],
                    !.rows0 = IF ~first THEN r.rows0
                              ELSE IF mode = "exclusive" THEN ContractEvent ELSE EmptyBag,
                    !.first_ledger = IF ~first THEN r.first_ledger
                                     ELSE IF mode = "exclusive" THEN nl ELSE 0,
                    !.last_start = 0,
                    !.windows = << >>,
                    !.created_events = 0, !.updated_events = 0,
                    !.batch_start = nl,
                    !.pc = "fetch"]
    IN
    /\ r.kind = "backfill" /\ r.pc = "queued"
    /\ Sched(t)
    /\ task' = [task EXCEPT ![t] =
                  IF InvalidRange(r.from_ledger, r.to_ledger) \/ r.contract_id \notin TrackedIds
                  THEN Ended(r, "rejected", "ValueError")
                  ELSE IF nl > r.to_ledger THEN Ended(r1, "done", "none")
                  ELSE r1]
    /\ UNCHANGED << purevars, alertvars, hookvars, mode, wsvars, runs, last_indexed_ledger, ContractEvent, horizon_cursor, fanout >>

\* The record of a task whose try block raised: self.retry(exc=exc) queues
\* the task again while request.retries < max_retries and re-raises after.
Raised(r, why) ==
    IF r.retries < max_retries
    THEN [r EXCEPT !.pc = "queued", !.retries = r.retries + 1,
                   !.batch_events = << >>, !.i = 0,
                   !.batch_start = 0, !.batch_end = 0, !.mem_cursor = None,
                   !.start_cursor = None, !.windows = << >>,
                   !.created_events = 0, !.updated_events = 0, !.replayed = FALSE]
    ELSE Ended(r, "failed", why)

\* Line 715: client.get_events_range returns the window's events.
BackfillFetchOk(t) ==
    LET r  == task[t]
        be == BatchEnd(r.batch_start, r.to_ledger)
        ev == GetEventsRange(r.contract_id, r.batch_start, be)
    IN
    /\ r.kind = "backfill" /\ r.pc = "fetch"
    /\ Sched(t)
    /\ task' = [task EXCEPT ![t].batch_end = be,
                            ![t].batch_events = ev,
                            ![t].i = IF ev = << >> THEN 0 ELSE 1,
                            ![t].windows = Append(r.windows, << r.batch_start, be >>),
                            ![t].pc = IF ev = << >> THEN "save" ELSE "upsert"]
    /\ UNCHANGED << purevars, alertvars, hookvars, mode, wsvars, runs, last_indexed_ledger, ContractEvent, horizon_cursor, fanout >>

\* Line 715 raising (RPC or network error), caught at line 750.
BackfillFetchFail(t) ==
    LET r  == task[t]
        be == BatchEnd(r.batch_start, r.to_ledger)
    IN
    /\ r.kind = "backfill" /\ r.pc = "fetch"
    /\ Sched(t)
    /\ task' = [task EXCEPT ![t] =
                  Raised([r EXCEPT !.windows = Append(r.windows, << r.batch_start, be >>),
                                   !.last_start = r.batch_start],
                         "fetch")]
    /\ UNCHANGED << purevars, alertvars, hookvars, mode, wsvars, runs, last_indexed_ledger, ContractEvent, horizon_cursor, fanout >>

\* The loop position after the event at r.i is done.
Advance(r) ==
    [r EXCEPT !.i = IF r.i < Len(r.batch_events) THEN r.i + 1 ELSE 0,
              !.batch_events = IF r.i < Len(r.batch_events) THEN r.batch_events ELSE << >>,
              !.pc = IF r.i < Len(r.batch_events) THEN "upsert" ELSE "save"]

\* update_or_create after its lookup found rows: one row is updated under
\* its row lock; several rows raise MultipleObjectsReturned.
UpdateFound(t, hit, c) ==
    IF Copies(ContractEvent, hit) = 1
    THEN LET row == CHOOSE x \in hit : TRUE
         IN  /\ ContractEvent' = ReplaceRow(ContractEvent, row, UpdatedRow(row, c))
             /\ task' = [task EXCEPT ![t] =
                           Advance([task[t] EXCEPT !.updated_events = @ + 1,
                                                   !.replayed = @ \/ UpdatedRow(row, c) = row])]
    ELSE /\ task' = [task EXCEPT ![t] = Raised(task[t], "MultipleObjectsReturned")]
         /\ UNCHANGED ContractEvent

\* Lines 139-150, first half: the SELECT ... FOR UPDATE of update_or_create.
BackfillUpsert(t) ==
    LET r   == task[t]
        c   == Candidate(UpstreamEvents[r.batch_events[r.i]], r.i - 1)
        hit == UpsertLookup(r.contract_id, c.ledger, c.event_index)
    IN
    /\ r.kind = "backfill" /\ r.pc = "upsert"
    /\ Sched(t)
    /\ IF hit = {}
       THEN /\ task' = [task EXCEPT ![t].pc = "insert"]
            /\ UNCHANGED ContractEvent
       ELSE UpdateFound(t, hit, c)
    /\ UNCHANGED << purevars, alertvars, hookvars, mode, wsvars, runs, last_indexed_ledger, horizon_cursor, fanout >>

\* Lines 139-165, second half: the INSERT, and for the created row the
\* decoding of _try_decode_event; on IntegrityError the row is looked up
\* again and updated.
BackfillInsert(t) ==
    LET r   == task[t]
        c   == Candidate(UpstreamEvents[r.batch_events[r.i]], r.i - 1)
        hit == UpsertLookup(r.contract_id, c.ledger, c.event_index)
    IN
    /\ r.kind = "backfill" /\ r.pc = "insert"
    /\ Sched(t)
    /\ IF UniqueOk(r.contract_id, c.ledger, c.event_index)
       THEN /\ ContractEvent' = InsertRow(ContractEvent, DecodedRow(NewRow(r.contract_id, c)))
            /\ task' = [task EXCEPT ![t] =
                          Advance([r EXCEPT !.created_events = @ + 1])]
       ELSE UpdateFound(t, hit, c)
    /\ UNCHANGED << purevars, alertvars, hookvars, mode, wsvars, runs, last_indexed_ledger, horizon_cursor, fanout >>

\* Lines 733-734, then the next iteration or the return at line 740.
BackfillSave(t) ==
    LET r   == task[t]
        nbs == NextBatchStart(r.batch_start)
        r1  == [r EXCEPT !.mem_cursor = r.batch_end,
                         !.batch_start = nbs, !.batch_end = 0, !.pc = "fetch"]
    IN
    /\ r.kind = "backfill" /\ r.pc = "save"
    /\ Sched(t)
    /\ last_indexed_ledger' = [last_indexed_ledger EXCEPT ![r.contract_id] = r.batch_end]
    /\ task' = [task EXCEPT ![t] = IF nbs > r.to_ledger THEN Ended(r1, "done", "none") ELSE r1]
    /\ UNCHANGED << purevars, alertvars, hookvars, mode, wsvars, runs, ContractEvent, horizon_cursor, fanout >>

\* What a kill leaves of a task: its locals are lost, the task is neither
\* retried nor finished.
Killed(r) ==
    [r EXCEPT !.pc = "killed",
              !.last_start = IF r.windows = << >> THEN 0 ELSE r.windows[Len(r.windows)][1],
              !.batch_events = << >>, !.i = 0, !.mem_cursor = None,
              !.batch_start = 0, !.batch_end = 0,
              !.start_cursor = None, !.windows = << >>,
              !.created_events = 0, !.updated_events = 0, !.replayed = FALSE]

\* The worker process is killed while the task executes.
Kill(t) ==
    /\ task[t].kind = "backfill" /\ Running(t)
    /\ task' = [task EXCEPT ![t] = Killed(task[t])]
    /\ UNCHANGED << purevars, alertvars, hookvars, mode, wsvars, runs, last_indexed_ledger, ContractEvent, horizon_cursor, fanout >>

\* The worker process is killed after update_or_create has committed the
\* new row (line 150) and before _try_decode_event has saved (line 165).
KillAfterCreate(t) ==
    LET r   == task[t]
        c   == Candidate(UpstreamEvents[r.batch_events[r.i]], r.i - 1)
    IN
    /\ r.kind = "backfill" /\ r.pc = "insert"
    /\ Sched(t)
    /\ UniqueOk(r.contract_id, c.ledger, c.event_index)
    /\ TryDecode(r.contract_id, c.event_type, c.raw_xdr, c.payload).status # "no_abi"
    /\ ContractEvent' = InsertRow(ContractEvent, NewRow(r.contract_id, c))
    /\ task' = [task EXCEPT ![t] = Killed(r)]
    /\ UNCHANGED << purevars, alertvars, hookvars, mode, wsvars, runs, last_indexed_ledger, horizon_cursor, fanout >>

\* The same backfill is started again after the kill.
Restart(t) ==
    /\ task[t].kind = "backfill" /\ task[t].pc = "killed"
    /\ Sched(t)
    /\ task' = [task EXCEPT ![t].pc = "queued", ![t].retries = 0,
                            ![t].restarted = TRUE]
    /\ UNCHANGED << purevars, alertvars, hookvars, mode, wsvars, runs, last_indexed_ledger, ContractEvent, horizon_cursor, fanout >>

\* The table a run of the backfill leaves when nothing interrupts it: every
\* event of every window upserted and, when created, decoded.
RECURSIVE UpsertAll(_, _, _, _)
UpsertAll(table, contract_id, events, k) ==
    IF k > Len(events) THEN table
    ELSE LET c   == Candidate(UpstreamEvents[events[k]], k - 1)
             hit == KeyLookup(table, contract_id, c.ledger, c.event_index)
         IN  IF hit = {}
             THEN UpsertAll(InsertRow(table, DecodedRow(NewRow(contract_id, c))),
                            contract_id, events, k + 1)
             ELSE LET row == CHOOSE x \in hit : TRUE
                  IN  UpsertAll(ReplaceRow(table, row, UpdatedRow(row, c)),
                                contract_id, events, k + 1)

RECURSIVE RunWindows(_, _, _, _)
RunWindows(table, contract_id, batch_start, end_ledger) ==
    IF batch_start > end_ledger THEN table
    ELSE RunWindows(UpsertAll(table, contract_id,
                              GetEventsRange(contract_id, batch_start,
                                             BatchEnd(batch_start, end_ledger)), 1),
                    contract_id, NextBatchStart(batch_start), end_ledger)

\* ------------------------------------------------------------------------
\* Live sync: sync_events_from_horizon()
\* ------------------------------------------------------------------------
\* What server.get_events can return for a start ledger (None when the
\* cursor is "now"): the events of the active contracts from that ledger on.
SyncEligible(start_ledger) ==
    SelectSeq([k \in EventIds |-> k],
              LAMBDA k : /\ UpstreamEvents[k].contract_id \in TrackedIds
                         /\ (start_ledger = None \/ UpstreamEvents[k].ledger >= start_ledger))

\* Rows matching get_or_create(tx_hash, ledger, event_type) of line 611.
SyncLookup(event) ==
    { r \in BagToSet(ContractEvent) : /\ r.tx_hash = event.tx_hash
                                      /\ r.ledger = event.ledger
                                      /\ r.event_type = event.type }

\* The row get_or_create inserts: the lookup fields, the defaults of the
\* call, and the model defaults (event_index 0, decoding_status "no_abi").
SyncNewRow(contract_id, event, validation_status, schema_version) ==
    [contract |-> contract_id, ledger |-> event.ledger, event_index |-> 0,
     tx_hash |-> event.tx_hash, event_type |-> event.type, payload |-> event.value,
     raw_xdr |-> event.xdr,
     payload_hash |-> PayloadHash(<< >>, event.value),
     validation_status |-> validation_status, schema_version |-> schema_version,
     decoded_payload |-> << >>, decoding_status |-> "no_abi"]

\* The message handed to process_new_event.delay (lines 640-649).
FanoutMessage(row) ==
    [contract_id |-> row.contract, event_type |-> row.event_type, payload |-> row.payload,
     ledger |-> row.ledger, event_index |-> row.event_index, tx_hash |-> row.tx_hash]

\* A live sync that writes the cursor without comparing.
SyncAdvancesAlways(cursor, ledger) == TRUE

\* Line 651: does live sync move the contract's cursor to this ledger?
SyncAdvances(cursor, ledger) == cursor = None \/ ledger > cursor

\* celery beat: sync_events_from_horizon.delay()
SubmitSync(t) ==
    /\ FirstFree(t)
    /\ runs < MaxRuns
    /\ runs' = runs + 1
    /\ Sched(t)
    /\ task' = [task EXCEPT ![t] = [IdleTask EXCEPT !.kind = "sync", !.pc = "queued"]]
    /\ UNCHANGED << purevars, alertvars, hookvars, mode, wsvars, last_indexed_ledger, ContractEvent, horizon_cursor, fanout >>

\* Lines 566-595: read the cursor, list the active contracts, call the RPC.
\* The upstream answers with the first k events it holds from the cursor on.
SyncFetchOk(t) ==
    LET el == SyncEligible(horizon_cursor)
    IN
    /\ task[t].kind = "sync" /\ task[t].pc = "queued"
    /\ Sched(t)
    /\ \E k \in 0 .. Len(el) :
         task' = [task EXCEPT ![t] =
                    IF k = 0 THEN Ended(task[t], "done", "none")
                    ELSE [task[t] EXCEPT !.batch_events = SubSeq(el, 1, k),
                                         !.i = 1, !.pc = "event"]]
    /\ UNCHANGED << purevars, alertvars, hookvars, mode, wsvars, runs, last_indexed_ledger, ContractEvent, horizon_cursor, fanout >>

\* server.get_events raising; caught at line 667, the task returns 0.
SyncFetchFail(t) ==
    /\ task[t].kind = "sync" /\ task[t].pc = "queued"
    /\ Sched(t)
    /\ task' = [task EXCEPT ![t] = Ended(task[t], "done", "rpc")]
    /\ UNCHANGED << purevars, alertvars, hookvars, mode, wsvars, runs, last_indexed_ledger, ContractEvent, horizon_cursor, fanout >>

\* Lines 599-649 for one event: load the contract, validate, get_or_create,
\* refresh the validation fields of an existing row, schedule the fan-out of
\* a new one.  An exception is caught at line 667 and ends the run.
SyncEvent(t) ==
    LET r    == task[t]
        ev   == UpstreamEvents[r.batch_events[r.i]]
        cid  == ev.contract_id
        val  == ValidateEventPayload(cid, ev.type, ev.value)
        vs   == IF val[1] THEN "passed" ELSE "failed"
        hit  == SyncLookup(ev)
        row  == SyncNewRow(cid, ev, vs, val[2])
        r1   == [r EXCEPT !.mem_cursor = last_indexed_ledger[cid], !.pc = "cursor"]
    IN
    /\ r.kind = "sync" /\ r.pc = "event"
    /\ Sched(t)
    /\ IF Copies(ContractEvent, hit) > 1
       THEN /\ task' = [task EXCEPT ![t] = Ended(r, "done", "MultipleObjectsReturned")]
            /\ UNCHANGED << ContractEvent, fanout >>
       ELSE IF Copies(ContractEvent, hit) = 1
       THEN LET old == CHOOSE x \in hit : TRUE
            IN  /\ ContractEvent' =
                     ReplaceRow(ContractEvent, old,
                                [old EXCEPT !.validation_status = vs,
                                            !.schema_version = val[2]])
                /\ task' = [task EXCEPT ![t] = r1]
                /\ UNCHANGED fanout
       ELSE IF UniqueOk(cid, ev.ledger, 0)
       THEN /\ ContractEvent' = InsertRow(ContractEvent, row)
            /\ fanout' = fanout (+) SetToBag({FanoutMessage(row)})
            /\ task' = [task EXCEPT ![t] = [r1 EXCEPT !.new_events = @ + 1]]
       ELSE /\ task' = [task EXCEPT ![t] = Ended(r, "done", "IntegrityError")]
            /\ UNCHANGED << ContractEvent, fanout >>
    /\ UNCHANGED << purevars, alertvars, hookvars, mode, wsvars, runs, last_indexed_ledger, horizon_cursor >>

\* Lines 651-653: compare with the loaded contract object and save.
SyncCursor(t) ==
    LET r   == task[t]
        ev  == UpstreamEvents[r.batch_events[r.i]]
        cid == ev.contract_id
    IN
    /\ r.kind = "sync" /\ r.pc = "cursor"
    /\ Sched(t)
    /\ last_indexed_ledger' =
         IF SyncAdvances(r.mem_cursor, ev.ledger)
         THEN [last_indexed_ledger EXCEPT ![cid] = ev.ledger]
         ELSE last_indexed_ledger
    /\ task' = [task EXCEPT ![t].i = IF r.i < Len(r.batch_events) THEN r.i + 1 ELSE r.i,
                            ![t].mem_cursor = None,
                            ![t].pc = IF r.i < Len(r.batch_events) THEN "event" ELSE "finish"]
    /\ UNCHANGED << purevars, alertvars, hookvars, mode, wsvars, runs, ContractEvent, horizon_cursor, fanout >>

\* A live sync that takes the ledger of the first returned event.
LastLedgerOfFirst(events) == UpstreamEvents[events[1]].ledger

\* Line 657: events_response.events[-1].ledger
LastLedger(events) == UpstreamEvents[events[Len(events)]].ledger

\* Lines 655-659: the durable cursor moves to the last returned event.
SyncFinish(t) ==
    LET r == task[t]
    IN
    /\ r.kind = "sync" /\ r.pc = "finish"
    /\ Sched(t)
    /\ horizon_cursor' = LastLedger(r.batch_events)
    /\ task' = [task EXCEPT ![t] = Ended(r, "done", "none")]
    /\ UNCHANGED << purevars, alertvars, hookvars, mode, wsvars, runs, last_indexed_ledger, ContractEvent, fanout >>

\* ------------------------------------------------------------------------
\* Specifications
\* ------------------------------------------------------------------------
TaskStep(t) ==
    \/ SubmitBackfill(t)
    \/ BackfillStart(t)
    \/ BackfillFetchOk(t)
    \/ BackfillFetchFail(t)
    \/ BackfillUpsert(t)
    \/ BackfillInsert(t)
    \/ BackfillSave(t)
    \/ SubmitSync(t)
    \/ SyncFetchOk(t)
    \/ SyncFetchFail(t)
    \/ SyncEvent(t)
    \/ SyncCursor(t)
    \/ SyncFinish(t)

\* Tasks of the worker pool interleave freely.
Next == \E t \in Slots : TaskStep(t)

Init == InitState /\ mode = "interleaved"

Spec == Init /\ [][Next]_vars

\* Task executions run one after another.
InitSeq == InitState /\ mode = "sequential"

SpecSeq == InitSeq /\ [][Next]_vars

\* The same tasks with worker kills and restarts of the killed backfill.
NextKill == \E t \in Slots : TaskStep(t) \/ Kill(t) \/ KillAfterCreate(t) \/ Restart(t)

\* One request at a time, its retries and restarts included.
InitExcl == InitState /\ mode = "exclusive"

SpecExcl == InitExcl /\ [][NextKill]_vars

\* ------------------------------------------------------------------------
\* Fan-out: process_new_event(event_data)
\* ------------------------------------------------------------------------
ingestvars == << mode, last_indexed_ledger, horizon_cursor, task, runs, alertvars, purevars,
                 wsvars >>

\* A fan-out that looks at the contract and the filter only.
MatchingWebhooksAnyState(contract_id, event_type) ==
    { s \in SubIds : /\ subscription[s].exists
                     /\ Subscriptions[s].contract = contract_id
                     /\ Subscriptions[s].event_type \in {event_type, ""} }

\* Lines 497-503: the subscriptions a message is dispatched to.
MatchingWebhooks(contract_id, event_type) ==
    { s \in SubIds : /\ subscription[s].exists
                     /\ Subscriptions[s].contract = contract_id
                     /\ subscription[s].is_active
                     /\ subscription[s].status = "active"
                     /\ Subscriptions[s].event_type \in {event_type, ""} }

\* dispatch_webhook.delay(webhook.id, event_obj.id)
QueuedDelivery == [IdleDelivery EXCEPT !.pc = "queued"]

\* A worker takes a message from the queue and runs process_new_event on
\* it: publish to the channel layer, resolve the subscriptions, look the
\* event up, schedule the deliveries and the alert evaluation.
ProcessNewEvent(m) ==
    LET webhooks == MatchingWebhooks(m.contract_id, m.event_type)
        found    == KeyLookup(ContractEvent, m.contract_id, m.ledger, m.event_index)
    IN
    /\ BagIn(m, fanout)
    /\ fanout' = fanout (-) SetToBag({m})
    /\ channel' = channel (+) SetToBag({m})
    /\ IF webhooks = {} \/ found = {}
       THEN UNCHANGED << delivery, alerts >>
       ELSE LET event_obj == CHOOSE row \in found : TRUE
            IN  /\ delivery' = [k \in DeliveryKeys |->
                                  IF k[1] \in webhooks /\ k[2] = EventPk(event_obj)
                                  THEN QueuedDelivery ELSE delivery[k]]
                /\ alerts' = alerts (+) SetToBag({EventPk(event_obj)})
    /\ UNCHANGED << ingestvars, ContractEvent, subscription, endpoint, delivery_log,
                    posts, admin >>

\* ------------------------------------------------------------------------
\* Webhook delivery: dispatch_webhook(subscription_id, event_id)
\* ------------------------------------------------------------------------
\* What a target can answer: a status code with or without a Retry-After
\* header; status_code None is a network-level error or a timeout of
\* requests.post.  Every target may answer 200 or 204; a target that fails
\* fails in its own way.
Responses(kind) ==
    { [status_code |-> 200, retry_after |-> None],
      [status_code |-> 204, retry_after |-> None] }
    \cup (CASE kind = "up"           -> {}
            [] kind = "error"        -> { [status_code |-> 500, retry_after |-> None] }
            [] kind = "limited"      -> { [status_code |-> 429, retry_after |-> 120] }
            [] kind = "limited_bare" -> { [status_code |-> 429, retry_after |-> None] }
            [] kind = "not_modified" -> { [status_code |-> 304, retry_after |-> None] }
            [] kind = "down"         -> { [status_code |-> None, retry_after |-> None] })

FailingKinds == {"error", "limited", "limited_bare", "not_modified", "down"}

\* A success test that accepts 200 only.
SuccessOnly200(status_code) == status_code = 200

\* Line 347
Success(status_code) == status_code # None /\ 200 <= status_code /\ status_code < 300

\* response.raise_for_status() raises for 4xx and 5xx only.
RaisesForStatus(status_code) == 400 <= status_code /\ status_code < 600

\* A last attempt one retry early.
IsLastAttemptEarly(retries) == retries + 1 >= webhook_max_retries

\* Line 430, and the test of Task.retry: no retry is left.
IsLastAttempt(retries) == retries >= webhook_max_retries

\* Attempt numbers that start at 0.
AttemptNumberFromZero(retries) == retries

\* Line 316
AttemptNumber(retries) == retries + 1

RECURSIVE Pow2(_)
Pow2(n) == IF n = 0 THEN 1 ELSE 2 * Pow2(n - 1)

\* The delay of a retry.  self.retry of line 342 passes the integer of the
\* Retry-After header, or None, which is the default_retry_delay of the
\* task; a retry by autoretry_for uses the exponential backoff, given here
\* by its upper limit before jitter.
Countdown(status_code, retry_after, retries) ==
    IF status_code = 429
    THEN IF retry_after # None
         THEN [source |-> "Retry-After", seconds |-> retry_after]
         ELSE [source |-> "default_retry_delay", seconds |-> default_retry_delay]
    ELSE [source |-> "retry_backoff", seconds |-> Min(Pow2(retries), retry_backoff_max)]

\* The row written by _log_delivery_attempt.
LogRow(s, pk, retries, status_code) ==
    [subscription |-> s, event |-> pk, attempt_number |-> AttemptNumber(retries),
     status_code |-> status_code, success |-> Success(status_code)]

InFlight(k) == delivery[k].pc \in {"post", "success", "count", "suspend"}

\* The task as it ends: its result and nothing else.
Finished(d, pc, result) == [IdleDelivery EXCEPT !.pc = pc, !.retries = d.retries,
                                               !.result = result]

\* A start that only checks that both rows exist.
FoundAnyState(subscription_id, event_id) ==
    /\ subscription[subscription_id].exists
    /\ \E row \in BagToSet(ContractEvent) : EventPk(row) = event_id

\* Lines 270-293: the two lookups of dispatch_webhook.
Found(subscription_id, event_id) ==
    /\ subscription[subscription_id].exists
    /\ subscription[subscription_id].is_active
    /\ subscription[subscription_id].status = "active"
    /\ \E row \in BagToSet(ContractEvent) : EventPk(row) = event_id

\* Lines 270-293: the two lookups; a miss returns False.
DeliveryStart(k) ==
    LET d  == delivery[k]
    IN
    /\ d.pc = "queued"
    /\ delivery' = [delivery EXCEPT ![k] =
                      IF Found(k[1], k[2])
                      THEN [d EXCEPT !.pc = "post", !.countdown = << >>,
                                     !.loaded_count = subscription[k[1]].failure_count]
                      ELSE Finished(d, "skipped", "False")]
    /\ UNCHANGED << ingestvars, ContractEvent, fanout, subscription, endpoint,
                    delivery_log, channel, alerts, posts, admin >>

\* Lines 331 and 351: the flag set once the row of a response is written.
\* requests.post raising leaves it unset; its row is written by the handler
\* of line 372, which the exception has then already entered.
AttemptLogged(status_code) == status_code # None

\* Lines 319-351 and 372-374: the POST and the log row of the attempt.
DeliveryPost(k) ==
    LET d == delivery[k]
        s == k[1]
    IN
    /\ d.pc = "post"
    /\ posts' = posts + 1
    /\ \E response \in Responses(endpoint[s]) :
         /\ delivery_log' = delivery_log (+)
                SetToBag({LogRow(s, k[2], d.retries, response.status_code)})
         /\ delivery' = [delivery EXCEPT ![k] =
                [d EXCEPT !.status_code = response.status_code,
                          !.retry_after = response.retry_after,
                          !.attempt_logged = AttemptLogged(response.status_code),
                          !.pc = IF Success(response.status_code)
                                 THEN "success" ELSE "count"]]
    /\ UNCHANGED << ingestvars, ContractEvent, fanout, subscription, endpoint,
                    channel, alerts, admin >>

\* The value of timezone.now(): the model keeps no clock, every stamp is
\* the same instant.
Now == 1

\* A success that also puts the subscription back in service.
SuccessUpdateReactivates(row) ==
    [row EXCEPT !.failure_count = 0, !.last_triggered = Now,
                !.status = "active", !.is_active = TRUE]

\* Lines 354-357: update(failure_count=0, last_triggered=timezone.now())
SuccessUpdate(row) == [row EXCEPT !.failure_count = 0, !.last_triggered = Now]

\* Lines 353-367: one UPDATE resets the counter and stamps the time.
DeliverySuccess(k) ==
    LET d == delivery[k]
        s == k[1]
    IN
    /\ d.pc = "success"
    /\ subscription' = [subscription EXCEPT ![s] = SuccessUpdate(@)]
    /\ delivery' = [delivery EXCEPT ![k] = Finished(d, "delivered", "True")]
    /\ UNCHANGED << ingestvars, ContractEvent, fanout, endpoint, delivery_log,
                    channel, alerts, posts, admin >>

\* How the attempt leaves the task once _on_delivery_failure has returned:
\* a 429 calls self.retry, a network error or a 4xx/5xx is raised and
\* retried by autoretry_for, and both raise for good on the last attempt;
\* any other status falls through to the return of line 390.
AfterFailure(d) ==
    IF d.status_code = None \/ d.status_code = 429 \/ RaisesForStatus(d.status_code)
    THEN IF IsLastAttempt(d.retries)
         THEN Finished(d, "exhausted", "raised")
         ELSE [QueuedDelivery EXCEPT
                 !.retries = d.retries + 1,
                 !.countdown = Countdown(d.status_code, d.retry_after, d.retries)]
    ELSE Finished(d, "stopped", "False")

\* Lines 372-375: the handler entered by an HTTPError raised after the
\* response was handled (raise_for_status, or self.retry on the last
\* attempt) logs and counts the attempt itself when the flag is unset.
HandlerLogs(d) ==
    /\ d.status_code # None
    /\ ~ d.attempt_logged
    /\ \/ RaisesForStatus(d.status_code) /\ d.status_code # 429
       \/ d.status_code = 429 /\ IsLastAttempt(d.retries)

\* An increment computed from the object the task has loaded.
IncrementLoaded(stored, loaded) == loaded + 1

\* Lines 426-428: update(failure_count=F("failure_count") + 1), computed by
\* the database from the stored value.
IncrementStored(stored, loaded) == stored + 1

\* Lines 426-430: the atomic increment of failure_count.
DeliveryCount(k) ==
    LET d == delivery[k]
        s == k[1]
        again == ~ IsLastAttempt(d.retries) /\ HandlerLogs(d)
    IN
    /\ d.pc = "count"
    /\ subscription' = [subscription EXCEPT
                          ![s].failure_count =
                              IF again THEN IncrementStored(@, d.loaded_count) + 1
                              ELSE IncrementStored(@, d.loaded_count)]
    /\ delivery_log' = IF again
                       THEN delivery_log (+) SetToBag({LogRow(s, k[2], d.retries, None)})
                       ELSE delivery_log
    /\ delivery' = [delivery EXCEPT ![k] =
                      IF IsLastAttempt(d.retries) THEN [d EXCEPT !.pc = "suspend"]
                      ELSE AfterFailure(d)]
    /\ UNCHANGED << ingestvars, ContractEvent, fanout, endpoint,
                    channel, alerts, posts, admin >>

\* Lines 431-441: one UPDATE suspends and deactivates the subscription.
DeliverySuspend(k) ==
    LET d == delivery[k]
        s == k[1]
    IN
    /\ d.pc = "suspend"
    /\ subscription' = [subscription EXCEPT
                          ![s].status = "suspended",
                          ![s].is_active = FALSE,
                          ![s].failure_count = IF HandlerLogs(d) THEN @ + 1 ELSE @]
    /\ delivery_log' = IF HandlerLogs(d)
                       THEN delivery_log (+) SetToBag({LogRow(s, k[2], d.retries, None)})
                       ELSE delivery_log
    /\ delivery' = [delivery EXCEPT ![k] = AfterFailure(d)]
    /\ UNCHANGED << ingestvars, ContractEvent, fanout, endpoint,
                    channel, alerts, posts, admin >>

\* Administration outside the tasks: a subscription is deactivated or
\* deleted, an event row is deleted.  A row is not deleted while an attempt
\* that has loaded it is running.
AdminDeactivate(s) ==
    /\ admin < MaxAdmin
    /\ subscription[s].exists /\ subscription[s].is_active
    /\ admin' = admin + 1
    /\ subscription' = [subscription EXCEPT ![s].is_active = FALSE]
    /\ UNCHANGED << ingestvars, ContractEvent, fanout, endpoint, delivery, delivery_log,
                    channel, alerts, posts >>

AdminDelete(s) ==
    /\ admin < MaxAdmin
    /\ subscription[s].exists
    /\ \A k \in DeliveryKeys : k[1] = s => ~InFlight(k)
    /\ admin' = admin + 1
    /\ subscription' = [subscription EXCEPT ![s].exists = FALSE]
    /\ delivery_log' = [x \in { y \in BagToSet(delivery_log) : y.subscription # s }
                           |-> CopiesIn(x, delivery_log)]
    /\ UNCHANGED << ingestvars, ContractEvent, fanout, endpoint, delivery,
                    channel, alerts, posts >>

DeleteEvent(row) ==
    /\ admin < MaxAdmin
    /\ BagIn(row, ContractEvent)
    /\ \A k \in DeliveryKeys : k[2] = EventPk(row) => ~InFlight(k)
    /\ admin' = admin + 1
    /\ ContractEvent' = ContractEvent (-) SetToBag({row})
    /\ delivery_log' = BagOfAll(LAMBDA x : IF x.event = EventPk(row)
                                           THEN [x EXCEPT !.event = "NULL"] ELSE x,
                                delivery_log)
    /\ UNCHANGED << ingestvars, fanout, subscription, endpoint, delivery,
                    channel, alerts, posts >>

\* The rows a live sync creates from the upstream events, one per key, and
\* their messages.
HookEvents ==
    { k \in EventIds :
        ~ \E j \in 1 .. k - 1 :
            /\ UpstreamEvents[j].contract_id = UpstreamEvents[k].contract_id
            /\ UpstreamEvents[j].ledger = UpstreamEvents[k].ledger }

HookRow(k) ==
    LET ev  == UpstreamEvents[k]
        val == ValidateEventPayload(ev.contract_id, ev.type, ev.value)
    IN  SyncNewRow(ev.contract_id, ev, IF val[1] THEN "passed" ELSE "failed", val[2])

HookNext ==
    \/ \E m \in BagToSet(fanout) : ProcessNewEvent(m)
    \/ \E k \in DeliveryKeys :
         \/ DeliveryStart(k)
         \/ DeliveryPost(k)
         \/ DeliverySuccess(k)
         \/ DeliveryCount(k)
         \/ DeliverySuspend(k)
    \/ \E s \in SubIds : AdminDeactivate(s) \/ AdminDelete(s)
    \/ \E row \in BagToSet(ContractEvent) : DeleteEvent(row)

\* The targets of a behaviour: that of s1 fails in one of the ways above,
\* or that of s2, which receives every event, answers errors.
HookEndpoints ==
    { [s \in SubIds |-> IF s = "s1" THEN kind ELSE "up"] : kind \in FailingKinds }
    \cup { [s \in SubIds |-> IF s = "s2" THEN "error" ELSE "up"] }

\* Live sync has stored the events and queued their messages.  The
\* administrative changes are explored where the target of s2 answers.
InitHook ==
    /\ mode = "hook"
    /\ NoConnections
    /\ last_indexed_ledger = [c \in TrackedIds |-> None]
    /\ horizon_cursor = None
    /\ task = [t \in Slots |-> IdleTask]
    /\ runs = 0
    /\ ContractEvent = SetToBag({ HookRow(k) : k \in HookEvents })
    /\ fanout = SetToBag({ FanoutMessage(HookRow(k)) : k \in HookEvents })
    /\ subscription = [s \in SubIds |-> NewSubscription]
    /\ endpoint \in HookEndpoints
    /\ delivery = [k \in DeliveryKeys |-> IdleDelivery]
    /\ delivery_log = EmptyBag
    /\ channel = EmptyBag
    /\ alerts = EmptyBag
    /\ posts = 0
    /\ admin = IF endpoint["s2"] = "up" THEN 0 ELSE MaxAdmin
    /\ NoAlerts
    /\ NoCall

SpecHook == InitHook /\ [][HookNext]_vars

\* ------------------------------------------------------------------------
\* Python values
\* ------------------------------------------------------------------------
\* A value is tagged with its Python type: a dict is the sequence of its
\* (key, value) items in insertion order.  A str is a string where the code
\* only compares it, and the sequence of its characters where the code looks
\* inside it.
PyInt(n) == [py |-> "int", v |-> n]

PyStr(s) == [py |-> "str", v |-> s]

PyNone == [py |-> "none"]

PyDict(items) == [py |-> "dict", v |-> items]

PyList(elems) == [py |-> "list", v |-> elems]

Range(seq) == { seq[i] : i \in DOMAIN seq }

\* ------------------------------------------------------------------------
\* The signed request of dispatch_webhook
\* ------------------------------------------------------------------------
\* The keys that occur in a request body, in the order Python compares str.
KeyOrder ==
    << "amount", "contract_id", "event_index", "event_type", "from", "ledger",
       "payload", "to", "tx_hash" >>

KeyRank(key) == CHOOSE i \in DOMAIN KeyOrder : KeyOrder[i] = key

\* The items of a dict in the order it was filled.
InsertionOrder(items) == items

\* sorted(dict.items()) as json.dumps(sort_keys=True) does it: the item in
\* place i is the one with i - 1 smaller keys.
SortKeys(items) ==
    [i \in DOMAIN items |->
        CHOOSE it \in Range(items) :
            Cardinality({ o \in Range(items) : KeyRank(o[1]) < KeyRank(it[1]) }) = i - 1]

RECURSIVE JsonDumps(_)
\* json.dumps(value, sort_keys=True): the text as a tree of JSON tokens,
\* the members of an object in the order they are written.
JsonDumps(value) ==
    CASE value.py = "int"  -> [json |-> "number", text |-> value.v]
      [] value.py = "str"  -> [json |-> "string", text |-> value.v]
      [] value.py = "none" -> [json |-> "null"]
      [] value.py = "list" ->
            [json |-> "array",
             text |-> [i \in DOMAIN value.v |-> JsonDumps(value.v[i])]]
      [] value.py = "dict" ->
            LET items == SortKeys(value.v)
            IN  [json |-> "object",
                 text |-> [i \in DOMAIN items |->
                             << items[i][1], JsonDumps(items[i][2]) >>]]

\* str.encode("utf-8")
Encode(text) == << "utf-8", text >>

\* hmac.new(key, msg, sha256).hexdigest(): the digest is a term over its
\* key and its message, so that two digests agree only on equal inputs.
HmacHex(key, msg) == << "hex", "hmac-sha256", key, msg >>

\* Lines 295-302: the dict of the event, in the order it is written.
EventData(event) ==
    PyDict(<< << "contract_id", PyStr(event.contract_id) >>,
              << "event_type", PyStr(event.event_type) >>,
              << "payload", event.payload >>,
              << "ledger", PyInt(event.ledger) >>,
              << "event_index", PyInt(event.event_index) >>,
              << "tx_hash", PyStr(event.tx_hash) >> >>)

\* Lines 303-325: the body and the headers handed to requests.post.
SignedRequest(webhook, event) ==
    LET payload_bytes == Encode(JsonDumps(EventData(event)))
        sig_hex       == HmacHex(Encode(webhook.secret), payload_bytes)
    IN  [data    |-> payload_bytes,
         headers |-> [ContentType |-> "application/json",
                      XSoroScanSignature |-> << "sha256=", sig_hex >>]]

\* Payloads of stored events: empty, flat, and nested with keys written in
\* an order that is not the sorted one.
SignedPayloads ==
    { PyDict(<< >>),
      PyDict(<< << "amount", PyInt(150) >> >>),
      PyDict(<< << "to", PyStr("GB") >>, << "from", PyStr("GA") >>,
                << "amount", PyInt(150) >> >>),
      PyDict(<< << "to", PyDict(<< << "tx_hash", PyNone >>,
                                   << "ledger", PyInt(7) >> >>) >>,
                << "amount", PyList(<< PyInt(1), PyStr("x") >>) >> >>) }

SignedEvents ==
    [contract_id : {"c1", "c2"}, event_type : {"transfer", "mint", ""},
     payload : SignedPayloads, ledger : {30, 240}, event_index : {0, 1},
     tx_hash : {"t1", "t3"}]

Secrets == {"k1", "k2"}

\* dispatch_webhook up to its POST, for a subscription and an event it found.
DispatchSign ==
    /\ call.fn = "dispatch_webhook"
    /\ ~ret.done
    /\ ret' = [done |-> TRUE, value |-> SignedRequest(call.webhook, call.event)]
    /\ UNCHANGED << mode, wsvars, last_indexed_ledger, ContractEvent, horizon_cursor, fanout,
                    task, runs, hookvars, alertvars, call >>

InitSign ==
    /\ mode = "sign"
    /\ NoConnections
    /\ StoreIdle
    /\ NoAlerts
    /\ call \in [fn : {"dispatch_webhook"}, webhook : [secret : Secrets],
                 event : SignedEvents]
    /\ ret = [done |-> FALSE]

SpecSign == InitSign /\ [][DispatchSign]_vars

\* ------------------------------------------------------------------------
\* The condition evaluator: evaluate_condition(condition, event_data)
\* ------------------------------------------------------------------------
DigitChars == << "0", "1", "2", "3", "4", "5", "6", "7", "8", "9" >>

UpperChars == << "A", "B", "C", "D", "E", "F", "G", "H", "I", "J", "K", "L", "M", "N", "O", "P", "Q", "R", "S", "T", "U", "V", "W", "X", "Y", "Z" >>

LowerChars == << "a", "b", "c", "d", "e", "f", "g", "h", "i", "j", "k", "l", "m", "n", "o", "p", "q", "r", "s", "t", "u", "v", "w", "x", "y", "z" >>

RECURSIVE Digits(_)
\* The decimal digits of a natural number.
Digits(n) ==
    IF n < 10 THEN << DigitChars[n + 1] >>
    ELSE Digits(n \div 10) \o << DigitChars[(n % 10) + 1] >>

HexChars ==
    << "0", "1", "2", "3", "4", "5", "6", "7", "8", "9", "a", "b", "c", "d", "e", "f" >>

\* bytes.hex(): two hexadecimal digits a byte.
RECURSIVE Hex(_)
Hex(bytes) ==
    IF bytes = << >> THEN << >>
    ELSE << HexChars[(bytes[1] \div 16) + 1], HexChars[(bytes[1] % 16) + 1] >>
         \o Hex(Tail(bytes))

\* The body of repr(bytes) for bytes outside printable ASCII: \xhh each.
RECURSIVE EscapedBytes(_)
EscapedBytes(bytes) ==
    IF bytes = << >> THEN << >>
    ELSE << "\\", "x" >> \o Hex(<< bytes[1] >>) \o EscapedBytes(Tail(bytes))

PyBytes(bytes) == [py |-> "bytes", v |-> bytes]

RECURSIVE Join(_, _)
\* sep.join(parts)
Join(parts, sep) ==
    IF parts = << >> THEN << >>
    ELSE IF Len(parts) = 1 THEN parts[1]
    ELSE parts[1] \o sep \o Join(Tail(parts), sep)

RECURSIVE Repr(_)
\* repr(value), which str(list) applies to the elements.
Repr(value) ==
    CASE value.py = "int"  -> IF value.v < 0 THEN << "-" >> \o Digits(0 - value.v)
                              ELSE Digits(value.v)
      [] value.py = "str"  -> << "'" >> \o value.v \o << "'" >>
      [] value.py = "none" -> << "N", "o", "n", "e" >>
      [] value.py = "bytes" -> << "b", "'" >> \o EscapedBytes(value.v) \o << "'" >>
      [] value.py = "list" ->
            << "[" >> \o Join([i \in DOMAIN value.v |-> Repr(value.v[i])], << ",", " " >>)
                      \o << "]" >>

\* str(value)
Str(value) == IF value.py = "str" THEN value.v ELSE Repr(value)

\* str.lower()
Lower(text) ==
    [i \in DOMAIN text |->
        IF \E j \in DOMAIN UpperChars : UpperChars[j] = text[i]
        THEN LowerChars[CHOOSE j \in DOMAIN UpperChars : UpperChars[j] = text[i]]
        ELSE text[i]]

\* str.startswith(prefix)
StartsWith(text, prefix) ==
    /\ Len(prefix) <= Len(text)
    /\ SubSeq(text, 1, Len(prefix)) = prefix

\* needle in text
Contains(text, needle) ==
    \E i \in 1 .. (Len(text) - Len(needle) + 1) :
        SubSeq(text, i, i + Len(needle) - 1) = needle

RECURSIVE Split(_, _)
\* text.split(sep) for a one-character separator.
Split(text, sep) ==
    IF \A i \in DOMAIN text : text[i] # sep THEN << text >>
    ELSE LET i == CHOOSE j \in DOMAIN text :
                      text[j] = sep /\ \A h \in 1 .. (j - 1) : text[h] # sep
         IN  << SubSeq(text, 1, i - 1) >> \o Split(SubSeq(text, i + 1, Len(text)), sep)

RECURSIVE DigitsValue(_)
DigitsValue(text) ==
    IF text = << >> THEN 0
    ELSE DigitsValue(SubSeq(text, 1, Len(text) - 1)) * 10
         + (CHOOSE d \in 0 .. 9 : DigitChars[d + 1] = text[Len(text)])

\* A conversion that accepts no text.
FloatRejects(text) == [ok |-> FALSE]

\* float(text) for the texts met here: an optional sign and decimal digits
\* give the number, exactly; anything else is a ValueError (ok FALSE).
\* Texts with a point, an exponent, blanks, underscores, "inf" or "nan" are
\* outside the texts drawn below.
Float(text) ==
    LET signed == text # << >> /\ text[1] \in {"-", "+"}
        digits == IF signed THEN Tail(text) ELSE text
    IN  IF digits # << >> /\ \A i \in DOMAIN digits : digits[i] \in Range(DigitChars)
        THEN [ok |-> TRUE,
              v  |-> IF signed /\ text[1] = "-" THEN 0 - DigitsValue(digits)
                     ELSE DigitsValue(digits)]
        ELSE [ok |-> FALSE]

\* dict.get(key)
DictGet(d, key) ==
    IF \E i \in DOMAIN d.v : d.v[i][1] = key
    THEN d.v[CHOOSE i \in DOMAIN d.v : d.v[i][1] = key][2]
    ELSE PyNone

RECURSIVE Traverse(_, _)
Traverse(current, parts) ==
    IF parts = << >> THEN current
    ELSE IF current.py = "dict" THEN Traverse(DictGet(current, parts[1]), Tail(parts))
    ELSE PyNone

\* _get_field(data, dotted_path)
GetField(data, dotted_path) == Traverse(data, Split(dotted_path, "."))

\* condition.get(key, default) on a node of the tree.
Get(condition, key, default) ==
    IF key \in DOMAIN condition THEN condition[key] ELSE default

\* The outcome of a call: "True", "False" or the name of an exception.
PyBool(b) == IF b THEN "True" ELSE "False"

\* Lines 805-823: the comparison of a field with a literal.
Compare(op, current, value) ==
    CASE op = << "e", "q" >> -> PyBool(Str(current) = Str(value))
      [] op = << "n", "e", "q" >> -> PyBool(Str(current) # Str(value))
      [] op \in { << "g", "t" >>, << "g", "t", "e" >>, << "l", "t" >>, << "l", "t", "e" >> } ->
            LET lhs == Float(Str(current))
                rhs == Float(Str(value))
            IN  IF ~lhs.ok \/ ~rhs.ok THEN "False"
                ELSE PyBool(CASE op = << "g", "t" >> -> lhs.v > rhs.v
                              [] op = << "g", "t", "e" >> -> lhs.v >= rhs.v
                              [] op = << "l", "t" >> -> lhs.v < rhs.v
                              [] op = << "l", "t", "e" >> -> lhs.v <= rhs.v)
      [] op = << "c", "o", "n", "t", "a", "i", "n", "s" >> ->
            IF current.py = "none" THEN "False"
            ELSE PyBool(Contains(Lower(Str(current)), Lower(Str(value))))
      [] op = << "s", "t", "a", "r", "t", "s", "w", "i", "t", "h" >> ->
            IF current.py = "none" THEN "False"
            ELSE PyBool(StartsWith(Str(current), Str(value)))
      [] op = << "i", "n" >> ->
            IF value.py = "list" THEN PyBool(current \in Range(value.v))
            ELSE PyBool(Str(current) = Str(value))
      [] OTHER -> "False"

RECURSIVE EvaluateCondition(_, _)
RECURSIVE AllOf(_, _)
RECURSIVE AnyOf(_, _)
\* all(evaluate_condition(c) for c in subs): stops at the first sub-result
\* that is not true, an exception included.
AllOf(subs, event_data) ==
    IF subs = << >> THEN "True"
    ELSE LET r == EvaluateCondition(subs[1], event_data)
         IN  IF r = "True" THEN AllOf(Tail(subs), event_data) ELSE r

\* any(...): stops at the first sub-result that is not false.
AnyOf(subs, event_data) ==
    IF subs = << >> THEN "False"
    ELSE LET r == EvaluateCondition(subs[1], event_data)
         IN  IF r = "False" THEN AnyOf(Tail(subs), event_data) ELSE r

\* evaluate_condition: "True", "False", or "AttributeError" when a node of
\* the tree is not a dict and so has no get.  A dict node is the function
\* from its keys, << >> the empty dict; any other node is a tagged value.
EvaluateCondition(condition, event_data) ==
    IF "py" \in DOMAIN condition THEN "AttributeError"
    ELSE
    LET raw == Get(condition, "op", PyNone)
        op  == IF raw.py = "none" THEN << >> ELSE Lower(raw.v)
    IN  IF op = << "n", "o", "t" >>
        THEN LET r == EvaluateCondition(Get(condition, "condition", << >>),
                                        event_data)
             IN  CASE r = "True" -> "False" [] r = "False" -> "True" [] OTHER -> r
        ELSE IF op = << "a", "n", "d" >>
        THEN AllOf(Get(condition, "conditions", << >>), event_data)
        ELSE IF op = << "o", "r" >>
        THEN AnyOf(Get(condition, "conditions", << >>), event_data)
        ELSE Compare(op,
                     GetField(event_data, Get(condition, "field", << >>)),
                     Get(condition, "value", PyNone))

\* The condition trees and the event data evaluate_condition is called
\* with.  The leaves cross every operator (also in upper case, unknown, null
\* or absent) with every field path and literal below.
CondOps ==
    { PyStr(<< "e", "q" >>), PyStr(<< "n", "e", "q" >>), PyStr(<< "g", "t" >>), PyStr(<< "g", "t", "e" >>), PyStr(<< "l", "t" >>), PyStr(<< "l", "t", "e" >>),
      PyStr(<< "c", "o", "n", "t", "a", "i", "n", "s" >>), PyStr(<< "s", "t", "a", "r", "t", "s", "w", "i", "t", "h" >>), PyStr(<< "i", "n" >>),
      PyStr(<< "E", "Q" >>), PyStr(<< "G", "t" >>), PyStr(<< "m", "a", "t", "c", "h", "e", "s" >>), PyNone }

CondFields ==
    { << "t", "y", "p", "e" >>, << "p", "a", "y", "l", "o", "a", "d", ".", "a", "m", "o", "u", "n", "t" >>,
      << "p", "a", "y", "l", "o", "a", "d", ".", "m", "i", "s", "s", "i", "n", "g" >>,
      << "t", "y", "p", "e", ".", "x" >> }

CondValues ==
    { PyStr(<< "t", "r", "a", "n", "s", "f", "e", "r" >>), PyStr(<< "1", "0", "0" >>), PyInt(100), PyStr(<< "a", "b", "c" >>), PyNone, PyStr(<< "N", "o", "n", "e" >>),
      PyList(<< PyInt(150), PyStr(<< "t", "r", "a", "n", "s", "f", "e", "r" >>) >>), PyStr(<< "T", "R", "A", "N", "S" >>), PyStr(<< "1", "5" >>),
      PyInt(150) }

CondLeaves ==
    [op : CondOps, field : CondFields, value : CondValues]
    \cup [field : CondFields, value : CondValues]
    \cup [op : CondOps, value : CondValues]

\* The leaves of the compound trees.
EqTypeTransfer == [op |-> PyStr(<< "e", "q" >>), field |-> << "t", "y", "p", "e" >>, value |-> PyStr(<< "t", "r", "a", "n", "s", "f", "e", "r" >>)]

GtAmount100 ==
    [op |-> PyStr(<< "g", "t" >>),
     field |-> << "p", "a", "y", "l", "o", "a", "d", ".", "a", "m", "o", "u", "n", "t" >>,
     value |-> PyStr(<< "1", "0", "0" >>)]

UnknownOp == [op |-> PyStr(<< "m", "a", "t", "c", "h", "e", "s" >>), field |-> << "t", "y", "p", "e" >>, value |-> PyStr(<< "t", "r", "a", "n", "s", "f", "e", "r" >>)]

LtAmountAbc ==
    [op |-> PyStr(<< "l", "t" >>),
     field |-> << "p", "a", "y", "l", "o", "a", "d", ".", "a", "m", "o", "u", "n", "t" >>,
     value |-> PyStr(<< "a", "b", "c" >>)]

SubLeaves == { EqTypeTransfer, GtAmount100, UnknownOp, LtAmountAbc }

\* Longest list of sub-conditions drawn exhaustively.
MaxSubs == 2

SubLists == UNION { [1 .. n -> SubLeaves] : n \in 0 .. MaxSubs }

Junctions ==
    [op : { PyStr(<< "a", "n", "d" >>), PyStr(<< "o", "r" >>), PyStr(<< "A", "N", "D" >>) }, conditions : SubLists]
    \cup { [op |-> PyStr(<< "a", "n", "d" >>)], [op |-> PyStr(<< "o", "r" >>)] }

Negations ==
    [op : { PyStr(<< "n", "o", "t" >>) }, condition : SubLeaves \cup Junctions]
    \cup { [op |-> PyStr(<< "n", "o", "t" >>)] }

Nested ==
    [op : { PyStr(<< "a", "n", "d" >>), PyStr(<< "o", "r" >>) },
     conditions : { << n, l >> : n \in { x \in Negations : "condition" \in DOMAIN x
                                                     /\ x.condition \in SubLeaves },
                                 l \in { EqTypeTransfer, GtAmount100 } }
                  \cup { << l, [op |-> PyStr(<< "o", "r" >>), conditions |-> << UnknownOp, k >>] >> :
                            l \in { EqTypeTransfer, LtAmountAbc }, k \in SubLeaves }]

\* The tree of the specification's example.
ExampleTree == [op |-> PyStr(<< "a", "n", "d" >>), conditions |-> << EqTypeTransfer, GtAmount100 >>]

CondTrees == CondLeaves \cup Junctions \cup Negations \cup Nested

\* Event data: the two of the example, one whose amount is not a number,
\* one without an amount.
CondEventData ==
    << PyDict(<< << << "t", "y", "p", "e" >>, PyStr(<< "t", "r", "a", "n", "s", "f", "e", "r" >>) >>,
                 << << "p", "a", "y", "l", "o", "a", "d" >>, PyDict(<< << << "a", "m", "o", "u", "n", "t" >>, PyInt(150) >> >>) >> >>),
       PyDict(<< << << "t", "y", "p", "e" >>, PyStr(<< "t", "r", "a", "n", "s", "f", "e", "r" >>) >>,
                 << << "p", "a", "y", "l", "o", "a", "d" >>, PyDict(<< << << "a", "m", "o", "u", "n", "t" >>, PyInt(50) >> >>) >> >>),
       PyDict(<< << << "t", "y", "p", "e" >>, PyStr(<< "m", "i", "n", "t" >>) >>,
                 << << "p", "a", "y", "l", "o", "a", "d" >>, PyDict(<< << << "a", "m", "o", "u", "n", "t" >>, PyStr(<< "a", "b", "c" >>) >> >>) >> >>),
       PyDict(<< << << "t", "y", "p", "e" >>, PyStr(<< "T", "r", "a", "n", "s", "f", "e", "r" >>) >>,
                 << << "p", "a", "y", "l", "o", "a", "d" >>, PyDict(<< >>) >> >>) >>

\* evaluate_condition(condition, event_data), called outside
\* evaluate_alert_rules: an exception reaches the caller.
EvaluateConditionCall ==
    /\ call.fn = "evaluate_condition"
    /\ ~ret.done
    /\ ret' = [done |-> TRUE,
               value |-> EvaluateCondition(call.condition, call.event_data)]
    /\ UNCHANGED << mode, wsvars, last_indexed_ledger, ContractEvent, horizon_cursor, fanout,
                    task, runs, hookvars, alertvars, call >>

InitCond ==
    /\ mode = "condition"
    /\ NoConnections
    /\ StoreIdle
    /\ NoAlerts
    /\ call \in [fn : {"evaluate_condition"}, condition : CondTrees,
                 event_data : Range(CondEventData)]
    /\ ret = [done |-> FALSE]

SpecCond == InitCond /\ [][EvaluateConditionCall]_vars

\* ------------------------------------------------------------------------
\* Alerts: evaluate_alert_rules(event_id) and send_alert(rule_id, event_id)
\* ------------------------------------------------------------------------
MAX_RULES_PER_CONTRACT == 100

\* Conditions of rules, over the keys of the event data of line 956: one on
\* the type, one on an amount, a JSON string where an object is expected,
\* and a conjunction that reaches such a string only for a transfer.
IsTransfer == [op |-> PyStr(<< "e", "q" >>), field |-> << "e", "v", "e", "n", "t", "_", "t", "y", "p", "e" >>, value |-> PyStr(<< "t", "r", "a", "n", "s", "f", "e", "r" >>)]

AmountOver100 ==
    [op |-> PyStr(<< "g", "t" >>),
     field |-> << "p", "a", "y", "l", "o", "a", "d", ".", "a", "m", "o", "u", "n", "t" >>,
     value |-> PyStr(<< "1", "0", "0" >>)]

NotAnObject == PyStr(<< "x" >>)

RaisesForTransfer == [op |-> PyStr(<< "a", "n", "d" >>), conditions |-> << IsTransfer, NotAnObject >>]

RuleConditions == { IsTransfer, AmountOver100, NotAnObject, RaisesForTransfer }

\* The characters of the event types stored.
TypeChars(event_type) ==
    CASE event_type = "transfer" -> << "t", "r", "a", "n", "s", "f", "e", "r" >>
      [] event_type = "mint" -> << "m", "i", "n", "t" >>
      [] event_type = "burn" -> << "b", "u", "r", "n" >>
      [] OTHER -> << >>

\* event.payload or {}, as a dict.
PayloadDict(payload) ==
    PyDict((IF "amount" \in DOMAIN payload
            THEN << << << "a", "m", "o", "u", "n", "t" >>, PyInt(payload.amount) >> >> ELSE << >>)
           \o (IF "memo" \in DOMAIN payload
               THEN << << << "m", "e", "m", "o" >>, PyInt(payload.memo) >> >> ELSE << >>))

\* Lines 956-962
AlertEventData(event) ==
    PyDict(<< << << "e", "v", "e", "n", "t", "_", "t", "y", "p", "e" >>, PyStr(TypeChars(event.event_type)) >>,
              << << "l", "e", "d", "g", "e", "r" >>, PyInt(event.ledger) >>,
              << << "p", "a", "y", "l", "o", "a", "d" >>, PayloadDict(event.payload) >>,
              << << "d", "e", "c", "o", "d", "e", "d", "P", "a", "y", "l", "o", "a", "d" >>, PayloadDict(event.payload) >> >>)

\* The ids 1 .. n in ascending order.
Ids(n) == [i \in 1 .. n |-> i]

\* Rows of any state, active or not.
RulesOfAnyState(contract) ==
    LET OfContract(id) == alert_rule[id].contract = contract
    IN  SelectSeq(Ids(Len(alert_rule)), OfContract)

\* filter(contract=event.contract, is_active=True).order_by("id")
RulesOf(contract) ==
    LET Active(id) == alert_rule[id].contract = contract /\ alert_rule[id].is_active
    IN  SelectSeq(Ids(Len(alert_rule)), Active)

\* queryset[:limit]
Limit(seq, limit) == SubSeq(seq, 1, Min(Len(seq), limit))

\* A send_alert task as apply_async queues it.
QueuedSend(rule_id, event_id) ==
    [rule |-> rule_id, event |-> event_id, pc |-> "queued", retries |-> 0,
     attempts |-> 0, outcome |-> "none", result |-> "none"]

\* evaluate_alert_rules(event_id), for an evaluation process_new_event has
\* queued.
EvaluateAlertRules(event_id) ==
    LET found == { row \in BagToSet(ContractEvent) : EventPk(row) = event_id }
    IN
    /\ BagIn(event_id, alerts)
    /\ alerts' = alerts (-) SetToBag({event_id})
    /\ IF found = {}
       THEN /\ alert_eval' = (event_id :> 0) @@ alert_eval
            /\ UNCHANGED alert_send
       ELSE LET event      == CHOOSE row \in found : TRUE
                rules      == Limit(RulesOf(event.contract), MAX_RULES_PER_CONTRACT)
                event_data == AlertEventData(event)
                Matches(id) ==
                    EvaluateCondition(alert_rule[id].condition, event_data) = "True"
                matching   == SelectSeq(rules, Matches)
            IN  /\ alert_send' = alert_send \o
                       [i \in DOMAIN matching |-> QueuedSend(matching[i], event_id)]
                /\ alert_eval' = (event_id :> Len(matching)) @@ alert_eval
    /\ UNCHANGED << mode, wsvars, last_indexed_ledger, horizon_cursor, task, runs, purevars, ContractEvent, fanout, subscription, endpoint,
                    delivery, delivery_log, channel, posts, admin, alert_rule,
                    alert_execution >>

\* Largest rule table drawn rule by rule.
MaxRules == 3

RuleKinds ==
    [contract : {"c1", "c2"}, is_active : BOOLEAN, condition : RuleConditions,
     action_type : {"slack"}]

\* A table with more rules of c1 than the limit: only the first and the
\* last can match a transfer.
ManyRules(n) ==
    [id \in 1 .. n |->
        [contract |-> "c1", is_active |-> TRUE,
         condition |-> IF id \in {1, n} THEN IsTransfer ELSE NotAnObject,
         action_type |-> "slack"]]

\* The tables of a behaviour: every table of up to MaxRules rules, and
\* tables beyond the limit, the first rule active, inactive or of another
\* contract.
RuleTables ==
    UNION { [1 .. n -> RuleKinds] : n \in 0 .. MaxRules }
    \cup { ManyRules(MAX_RULES_PER_CONTRACT + 1),
           [ManyRules(MAX_RULES_PER_CONTRACT + 1) EXCEPT ![1].is_active = FALSE],
           [ManyRules(MAX_RULES_PER_CONTRACT + 1) EXCEPT ![1].contract = "c2"],
           ManyRules(MAX_RULES_PER_CONTRACT) }

\* The events t1 and t3 are stored; evaluations are queued for them and
\* for t2, which has no row.
InitRules ==
    /\ mode = "rules"
    /\ NoConnections
    /\ last_indexed_ledger = [c \in TrackedIds |-> None]
    /\ horizon_cursor = None
    /\ task = [t \in Slots |-> IdleTask]
    /\ runs = 0
    /\ ContractEvent = SetToBag({ HookRow(k) : k \in HookEvents })
    /\ fanout = EmptyBag
    /\ subscription = [s \in SubIds |-> NewSubscription]
    /\ endpoint = [s \in SubIds |-> "up"]
    /\ delivery = [k \in DeliveryKeys |-> IdleDelivery]
    /\ delivery_log = EmptyBag
    /\ channel = EmptyBag
    /\ alerts = SetToBag({ UpstreamEvents[k].tx_hash : k \in EventIds })
    /\ posts = 0
    /\ admin = 0
    /\ alert_rule \in RuleTables
    /\ alert_eval = << >>
    /\ alert_send = << >>
    /\ alert_execution = EmptyBag
    /\ NoCall

RulesNext == \E event_id \in BagToSet(alerts) : EvaluateAlertRules(event_id)

SpecRules == InitRules /\ [][RulesNext]_vars

\* max_retries of send_alert with one more.
send_alert_max_retries_plus_one == 5 + 1

\* Line 831: max_retries of send_alert.
send_alert_max_retries == 5

\* What dispatching an alert can do: the helper of a known action type
\* returns or raises, any other action type raises ValueError.
SendOutcomes(action_type) ==
    IF action_type \in {"slack", "email", "webhook"} THEN {"ok", "error"} ELSE {"error"}

\* Lines 869 and 880-882: the row written for an outcome.
ExecutionRow(rule_id, event_id, outcome) ==
    [rule |-> rule_id, event |-> event_id,
     status |-> IF outcome = "ok" THEN "sent" ELSE "failed"]

\* autoretry_for=(Exception,): the raised exception re-queues the task
\* while retries remain, and is raised for good after the last one.
AfterAlertFailure(t) ==
    IF t.retries < send_alert_max_retries
    THEN [t EXCEPT !.pc = "queued", !.retries = t.retries + 1]
    ELSE [t EXCEPT !.pc = "failed", !.result = "raised"]

\* One execution of send_alert(rule_id, event_id).
SendAlert(i) ==
    LET t     == alert_send[i]
        found == { row \in BagToSet(ContractEvent) : EventPk(row) = t.event }
    IN
    /\ t.pc = "queued"
    /\ IF ~(t.rule \in DOMAIN alert_rule /\ alert_rule[t.rule].is_active)
       THEN /\ alert_send' = [alert_send EXCEPT
                                ![i] = [t EXCEPT !.pc = "skipped",
                                                 !.result = "skipped:rule_gone"]]
            /\ UNCHANGED alert_execution
       ELSE IF found = {}
       THEN /\ alert_send' = [alert_send EXCEPT
                                ![i] = [t EXCEPT !.pc = "skipped",
                                                 !.result = "skipped:event_gone"]]
            /\ UNCHANGED alert_execution
       ELSE \E outcome \in SendOutcomes(alert_rule[t.rule].action_type) :
              LET made == [t EXCEPT !.attempts = t.attempts + 1, !.outcome = outcome]
              IN  /\ alert_execution' = alert_execution (+)
                        SetToBag({ExecutionRow(t.rule, t.event, outcome)})
                  /\ alert_send' = [alert_send EXCEPT
                        ![i] = IF outcome = "ok"
                               THEN [made EXCEPT !.pc = "sent", !.result = "sent"]
                               ELSE AfterAlertFailure(made)]
    /\ UNCHANGED << mode, wsvars, last_indexed_ledger, horizon_cursor, task, runs, purevars,
                    ContractEvent, fanout, hookvars, alert_rule, alert_eval >>

\* An owner switches a rule off.
AlertDeactivateRule(id) ==
    /\ admin < MaxAdmin
    /\ alert_rule[id].is_active
    /\ admin' = admin + 1
    /\ alert_rule' = [alert_rule EXCEPT ![id].is_active = FALSE]
    /\ UNCHANGED << mode, wsvars, last_indexed_ledger, horizon_cursor, task, runs, purevars,
                    ContractEvent, fanout, subscription, endpoint, delivery,
                    delivery_log, channel, alerts, posts, alert_eval, alert_send,
                    alert_execution >>

\* An event row is deleted; AlertExecution.event is on_delete=CASCADE.
AlertDeleteEvent(row) ==
    /\ admin < MaxAdmin
    /\ admin' = admin + 1
    /\ ContractEvent' = ContractEvent (-) SetToBag({row})
    /\ alert_execution' =
          LET gone == { x \in BagToSet(alert_execution) : x.event = EventPk(row) }
          IN  [x \in BagToSet(alert_execution) \ gone |-> alert_execution[x]]
    /\ UNCHANGED << mode, wsvars, last_indexed_ledger, horizon_cursor, task, runs, purevars,
                    fanout, subscription, endpoint, delivery, delivery_log, channel,
                    alerts, posts, alert_rule, alert_eval, alert_send >>

AlertNext ==
    \/ \E event_id \in BagToSet(alerts) : EvaluateAlertRules(event_id)
    \/ \E i \in DOMAIN alert_send : SendAlert(i)
    \/ \E id \in DOMAIN alert_rule : AlertDeactivateRule(id)
    \/ \E row \in BagToSet(ContractEvent) : AlertDeleteEvent(row)

\* Two rules that match the transfer t1: a Slack rule, and a rule whose
\* action type is none of the three.
AlertRulesOfC1 ==
    << [contract |-> "c1", is_active |-> TRUE, condition |-> IsTransfer,
        action_type |-> "slack"],
       [contract |-> "c1", is_active |-> TRUE, condition |-> AmountOver100,
        action_type |-> "pager"] >>

InitAlert ==
    /\ mode = "alert"
    /\ NoConnections
    /\ last_indexed_ledger = [c \in TrackedIds |-> None]
    /\ horizon_cursor = None
    /\ task = [t \in Slots |-> IdleTask]
    /\ runs = 0
    /\ ContractEvent = SetToBag({ HookRow(k) : k \in HookEvents })
    /\ fanout = EmptyBag
    /\ subscription = [s \in SubIds |-> NewSubscription]
    /\ endpoint = [s \in SubIds |-> "up"]
    /\ delivery = [k \in DeliveryKeys |-> IdleDelivery]
    /\ delivery_log = EmptyBag
    /\ channel = EmptyBag
    /\ alerts = SetToBag({ UpstreamEvents[k].tx_hash : k \in HookEvents })
    /\ posts = 0
    /\ admin = 0
    /\ alert_rule = AlertRulesOfC1
    /\ alert_eval = << >>
    /\ alert_send = << >>
    /\ alert_execution = EmptyBag
    /\ NoCall

SpecAlert == InitAlert /\ [][AlertNext]_vars

\* ------------------------------------------------------------------------
\* The ABI decoder: decode_event_payload(raw_xdr, abi_json, event_type)
\* ------------------------------------------------------------------------
\* An SCVal is tagged with its type; a vec holds its items under scv, and
\* has no scv when its optional SCVec is absent.
ScI32(n) == [sc |-> "i32", scv |-> n]

ScSymbol(text) == [sc |-> "symbol", scv |-> text]

ScBytes(bytes) == [sc |-> "bytes", scv |-> bytes]

ScVec(items) == [sc |-> "vec", scv |-> items]

ScVecAbsent == [sc |-> "vec"]

ScVoid == [sc |-> "void"]

\* SCVal.to_xdr(): the text that parses back to the value.
ToXdr(sc_val) == [xdr |-> "scval", of |-> sc_val]

\* SCVal.from_xdr(raw_xdr): the value, or an exception for a text that no
\* value encodes.
FromXdr(raw_xdr) ==
    IF raw_xdr.xdr = "scval" THEN [raises |-> FALSE, value |-> raw_xdr.of]
    ELSE [raises |-> TRUE]

RECURSIVE ToNative(_)
\* scval.to_native(sc_val): the value, or raises (ok FALSE) on a vec
\* without SCVec.
ToNative(sc_val) ==
    CASE sc_val.sc = "i32"    -> [ok |-> TRUE, value |-> PyInt(sc_val.scv)]
      [] sc_val.sc = "symbol" -> [ok |-> TRUE, value |-> PyStr(sc_val.scv)]
      [] sc_val.sc = "bytes"  -> [ok |-> TRUE, value |-> PyBytes(sc_val.scv)]
      [] sc_val.sc = "void"   -> [ok |-> TRUE, value |-> PyNone]
      [] sc_val.sc = "vec"    ->
            IF "scv" \notin DOMAIN sc_val
               \/ \E i \in DOMAIN sc_val.scv : ~ToNative(sc_val.scv[i]).ok
            THEN [ok |-> FALSE]
            ELSE [ok |-> TRUE,
                  value |-> PyList([i \in DOMAIN sc_val.scv |-> ToNative(sc_val.scv[i]).value])]

\* Lines 108-112 of decoder.py: the generic conversion, str(sc_val_obj) when it fails.
GenericFallback(sc_val) ==
    LET native == ToNative(sc_val)
    IN  IF native.ok THEN native.value ELSE PyStr(<< "<", "S", "C", "V", "a", "l", ">" >>)

\* _decode_sc_val(sc_val_obj, type_hint): the typed conversion of the hint
\* when the value has that type, the generic one when it raises.
DecodeScVal(sc_val, type_hint) ==
    CASE type_hint = "I32" /\ sc_val.sc = "i32" -> PyInt(sc_val.scv)
      [] type_hint = "Symbol" /\ sc_val.sc = "symbol" -> PyStr(sc_val.scv)
      [] type_hint = "Bytes" /\ sc_val.sc = "bytes" -> PyStr(Hex(sc_val.scv))
      [] type_hint = "Vec" /\ ToNative(sc_val).ok ->
            LET native == ToNative(sc_val).value
            IN  IF native.py = "list" THEN native ELSE PyStr(Str(native))
      [] OTHER -> GenericFallback(sc_val)

\* result[key] = value
DictSet(d, key, value) ==
    IF \E i \in DOMAIN d.v : d.v[i][1] = key
    THEN PyDict([i \in DOMAIN d.v |-> IF d.v[i][1] = key THEN << key, value >> ELSE d.v[i]])
    ELSE PyDict(Append(d.v, << key, value >>))

\* A test that takes the last item for missing.
HasItemBeforeLast(vec_items, i) == i < Len(vec_items) - 1

\* Line 163: i < len(vec_items), for the 0-based position i.
HasItem(vec_items, i) == i < Len(vec_items)

RECURSIVE MapPositionally(_, _, _, _)
\* Lines 162-168: the loop over enumerate(fields), from position i on.
MapPositionally(fields, vec_items, i, result) ==
    IF i >= Len(fields) THEN result
    ELSE LET field_def == fields[i + 1]
         IN  MapPositionally(fields, vec_items, i + 1,
                 DictSet(result, field_def.name,
                         IF HasItem(vec_items, i)
                         THEN DecodeScVal(vec_items[i + 1], field_def.type)
                         ELSE PyNone))

RECURSIVE SetNone(_, _)
\* Lines 174-175: the remaining fields are None.
SetNone(remaining, result) ==
    IF remaining = << >> THEN result
    ELSE SetNone(Tail(remaining), DictSet(result, remaining[1].name, PyNone))

\* What the handler of the parse error does with the exception.
ReturnsNoneOnParseError == [kind |-> "return", value |-> PyNone]

\* Lines 143-149: the parse error is logged and raised again.
OnParseError == [kind |-> "raise"]

\* decode_event_payload: the value returned, or the exception raised.
DecodeEventPayload(raw_xdr, abi_json, event_type) ==
    LET matching == { i \in DOMAIN abi_json : abi_json[i].name = event_type }
    IN  IF matching = {} THEN [kind |-> "return", value |-> PyNone]
        ELSE
        LET event_def == abi_json[CHOOSE i \in matching : \A j \in matching : i <= j]
            parsed    == FromXdr(raw_xdr)
            fields    == event_def.fields
        IN  IF parsed.raises THEN OnParseError
            ELSE IF fields = << >> THEN [kind |-> "return", value |-> PyDict(<< >>)]
            ELSE
            LET sc_val_obj == parsed.value
            IN  [kind |-> "return",
                 value |->
                    IF sc_val_obj.sc = "vec" /\ "scv" \in DOMAIN sc_val_obj
                    THEN MapPositionally(fields, sc_val_obj.scv, 0, PyDict(<< >>))
                    ELSE IF Len(fields) = 1
                    THEN DictSet(PyDict(<< >>), fields[1].name,
                                 DecodeScVal(sc_val_obj, fields[1].type))
                    ELSE SetNone(Tail(fields),
                                 DictSet(PyDict(<< >>), fields[1].name,
                                         DecodeScVal(sc_val_obj, fields[1].type)))]

\* The ABI of a contract: events of two, one, no and three fields, and a
\* second definition of an event already defined.
AbiJson ==
    << [name |-> "pair", fields |-> << [name |-> "a", type |-> "I32"],
                                       [name |-> "b", type |-> "I32"] >>],
       [name |-> "count", fields |-> << [name |-> "value", type |-> "Vec"] >>],
       [name |-> "ping", fields |-> << >>],
       [name |-> "swap", fields |-> << [name |-> "who", type |-> "Symbol"],
                                       [name |-> "data", type |-> "Bytes"],
                                       [name |-> "amount", type |-> "I32"] >>],
       [name |-> "pair", fields |-> << [name |-> "x", type |-> "Symbol"] >>] >>

\* The same events with other type hints.
AbiJsonOtherHints ==
    << [name |-> "pair", fields |-> << [name |-> "a", type |-> "Bytes"],
                                       [name |-> "b", type |-> "Vec"] >>],
       [name |-> "count", fields |-> << [name |-> "value", type |-> "I32"] >>],
       [name |-> "swap", fields |-> << [name |-> "who", type |-> "Vec"],
                                       [name |-> "data", type |-> "Symbol"],
                                       [name |-> "amount", type |-> "Bytes"] >>] >>

DecodedTypes == {"pair", "count", "ping", "swap", "nonexistent"}

\* Longest vec drawn.
MaxVec == 3

ScItems == { ScI32(10), ScI32(20), ScSymbol(<< "x" >>), ScBytes(<< 190, 239 >>) }

ScRoots ==
    { ScVec(items) : items \in UNION { [1 .. m -> ScItems] : m \in 0 .. MaxVec } }
    \cup ScItems
    \cup { ScVoid, ScVecAbsent, ScVec(<< ScVec(<< ScI32(10) >>), ScVecAbsent >>) }

\* Texts that are no XDR: the one of the test, and the empty text.
RawXdrs ==
    { ToXdr(v) : v \in ScRoots } \cup { [xdr |-> "not_valid_xdr!!!"], [xdr |-> ""] }

DecodeEventPayloadCall ==
    /\ call.fn = "decode_event_payload"
    /\ ~ret.done
    /\ ret' = [done |-> TRUE,
               value |-> DecodeEventPayload(call.raw_xdr, call.abi_json, call.event_type)]
    /\ UNCHANGED << mode, wsvars, last_indexed_ledger, ContractEvent, horizon_cursor, fanout,
                    task, runs, hookvars, alertvars, call >>

InitDecode ==
    /\ mode = "decode"
    /\ NoConnections
    /\ StoreIdle
    /\ NoAlerts
    /\ call \in [fn : {"decode_event_payload"}, raw_xdr : RawXdrs,
                 abi_json : {AbiJson, AbiJsonOtherHints}, event_type : DecodedTypes]
    /\ ret = [done |-> FALSE]

SpecDecode == InitDecode /\ [][DecodeEventPayloadCall]_vars

\* ------------------------------------------------------------------------
\* Decoding of a created row: _try_decode_event(obj, contract, event_type,
\* raw_xdr) with the decoder itself
\* ------------------------------------------------------------------------
\* The decoding fields of a row update_or_create has just inserted.
CreatedObj == [decoding_status |-> "no_abi", decoded_payload |-> PyNone]

\* A handler that lets the decode error through.
DecodeErrorPropagates(obj) == [raised |-> TRUE, obj |-> obj]

\* Lines 201-210: the decode error is logged and recorded on the row.
DecodeErrorRecorded(obj) ==
    [raised |-> FALSE, obj |-> [obj EXCEPT !.decoding_status = "failed"]]

RECURSIVE JsonSerializable(_)
\* Can a JSONField store the value?  bytes cannot: the save raises TypeError.
JsonSerializable(value) ==
    CASE value.py = "bytes" -> FALSE
      [] value.py = "list"  -> \A i \in DOMAIN value.v : JsonSerializable(value.v[i])
      [] value.py = "dict"  -> \A i \in DOMAIN value.v : JsonSerializable(value.v[i][2])
      [] OTHER -> TRUE

\* _try_decode_event: the row as saved; abi is the ContractABI row of the
\* contract, or a record without abi_json when there is none.  The save of
\* line 200 is inside the try block, so a decoded payload that cannot be
\* stored ends in the handler as well.
TryDecodeEvent(obj, abi, event_type, raw_xdr) ==
    IF "abi_json" \notin DOMAIN abi THEN [raised |-> FALSE, obj |-> obj]
    ELSE IF raw_xdr.xdr = ""
    THEN [raised |-> FALSE, obj |-> [obj EXCEPT !.decoding_status = "no_abi"]]
    ELSE LET decoded == DecodeEventPayload(raw_xdr, abi.abi_json, event_type)
         IN  IF decoded.kind = "raise" THEN DecodeErrorRecorded(obj)
             ELSE IF decoded.value # PyNone /\ ~JsonSerializable(decoded.value)
             THEN DecodeErrorRecorded(obj)
             ELSE IF decoded.value # PyNone
             THEN [raised |-> FALSE,
                   obj |-> [obj EXCEPT !.decoded_payload = decoded.value,
                                       !.decoding_status = "success"]]
             ELSE [raised |-> FALSE, obj |-> [obj EXCEPT !.decoding_status = "failed"]]

\* The ContractABI row of the contract of the event, if any.
ContractAbis == { [none |-> TRUE], [abi_json |-> AbiJson], [abi_json |-> AbiJsonOtherHints] }

\* Lines 151-167 for a created row: the decoding, then the return.
UpsertCreatedCall ==
    /\ call.fn = "_upsert_contract_event"
    /\ ~ret.done
    /\ ret' = [done |-> TRUE,
               value |-> TryDecodeEvent(CreatedObj, call.abi, call.event_type,
                                        call.raw_xdr)]
    /\ UNCHANGED << mode, wsvars, last_indexed_ledger, ContractEvent, horizon_cursor, fanout,
                    task, runs, hookvars, alertvars, call >>

InitTryDecode ==
    /\ mode = "try_decode"
    /\ NoConnections
    /\ StoreIdle
    /\ NoAlerts
    /\ call \in [fn : {"_upsert_contract_event"}, abi : ContractAbis,
                 raw_xdr : RawXdrs, event_type : DecodedTypes]
    /\ ret = [done |-> FALSE]

SpecTryDecode == InitTryDecode /\ [][UpsertCreatedCall]_vars

\* ------------------------------------------------------------------------
\* validate_event_payload on its own: any table of schema rows, any payload
\* ------------------------------------------------------------------------
\* The simple type names of JSON Schema.
JsonTypes == {"object", "string", "number", "integer", "array", "boolean", "null"}

HasKey(d, key) == \E i \in DOMAIN d.v : d.v[i][1] = key

RECURSIVE CheckSchema(_)
\* jsonschema's check of the schema body itself, for the keywords the model
\* knows: "type" is a simple type name, "required" a list of strings,
\* "properties" an object of schemas.
CheckSchema(schema) ==
    /\ schema.py = "dict"
    /\ HasKey(schema, "type") =>
          /\ DictGet(schema, "type").py = "str"
          /\ DictGet(schema, "type").v \in JsonTypes
    /\ HasKey(schema, "required") =>
          /\ DictGet(schema, "required").py = "list"
          /\ \A x \in Range(DictGet(schema, "required").v) : x.py = "str"
    /\ HasKey(schema, "properties") =>
          /\ DictGet(schema, "properties").py = "dict"
          /\ \A item \in Range(DictGet(schema, "properties").v) : CheckSchema(item[2])

\* Is the instance of the JSON type named?
IsJsonType(instance, type) ==
    CASE type = "object"  -> instance.py = "dict"
      [] type = "string"  -> instance.py = "str"
      [] type = "number"  -> instance.py = "int"
      [] type = "integer" -> instance.py = "int"
      [] type = "array"   -> instance.py = "list"
      [] type = "null"    -> instance.py = "none"
      [] OTHER -> FALSE

RECURSIVE Conforms(_, _)
\* Does the instance satisfy a well-formed schema?
Conforms(instance, schema) ==
    /\ HasKey(schema, "type") => IsJsonType(instance, DictGet(schema, "type").v)
    /\ (instance.py = "dict" /\ HasKey(schema, "required")) =>
          \A x \in Range(DictGet(schema, "required").v) : HasKey(instance, x.v)
    /\ (instance.py = "dict" /\ HasKey(schema, "properties")) =>
          \A item \in Range(DictGet(schema, "properties").v) :
              HasKey(instance, item[1]) => Conforms(DictGet(instance, item[1]), item[2])

\* jsonschema.validate: what it raises, "ok" when it returns.
JsonschemaValidate(instance, schema) ==
    IF ~CheckSchema(schema) THEN "SchemaError"
    ELSE IF Conforms(instance, schema) THEN "ok"
    ELSE "ValidationError"

\* .filter(contract, event_type).order_by("-version").first(), as a set.
FirstByVersionDesc(schemas, contract, event_type) ==
    LET S == { s \in schemas : s.contract = contract /\ s.event_type = event_type }
    IN  { s \in S : \A o \in S : o.version <= s.version }

\* validate_event_payload over a given EventSchema table: the pair it
\* returns, or the exception that leaves it.
ValidateEventPayloadIn(schemas, contract, event_type, payload) ==
    IF payload.py # "dict" THEN [raised |-> FALSE, value |-> << TRUE, None >>]
    ELSE LET F == FirstByVersionDesc(schemas, contract, event_type)
         IN  IF F = {} THEN [raised |-> FALSE, value |-> << TRUE, None >>]
             ELSE LET schema  == CHOOSE s \in F : TRUE
                      outcome == JsonschemaValidate(payload, schema.json_schema)
                  IN  CASE outcome = "ok" ->
                             [raised |-> FALSE, value |-> << TRUE, schema.version >>]
                        [] outcome = "ValidationError" ->
                             [raised |-> FALSE, value |-> << FALSE, schema.version >>]
                        [] OTHER -> [raised |-> TRUE, exc |-> outcome]

\* Schema bodies: the one of the unit tests, the empty schema, a schema for
\* strings, and two bodies that are not JSON Schemas.
SchemaBodies ==
    << PyDict(<< << "type", PyStr("object") >>,
                 << "properties",
                    PyDict(<< << "amount", PyDict(<< << "type", PyStr("number") >> >>) >> >>) >>,
                 << "required", PyList(<< PyStr("amount") >>) >> >>),
       PyDict(<< >>),
       PyDict(<< << "type", PyStr("string") >> >>),
       PyDict(<< << "type", PyStr("objekt") >> >>),
       PyDict(<< << "required", PyStr("amount") >> >>) >>

\* The (contract, event_type, version) keys schema rows are stored under.
SchemaKeys ==
    << << "c1", "swap", 1 >>, << "c1", "swap", 2 >>, << "c1", "mint", 1 >>,
       << "c2", "swap", 3 >> >>

\* Every table with, under each key, no row or a row with one of the bodies.
SchemaTables ==
    { { [contract |-> SchemaKeys[k][1], event_type |-> SchemaKeys[k][2],
         version |-> SchemaKeys[k][3], json_schema |-> SchemaBodies[f[k]]]
        : k \in { j \in DOMAIN SchemaKeys : f[j] # 0 } }
      : f \in [DOMAIN SchemaKeys -> 0 .. Len(SchemaBodies)] }

ValidatedPayloads ==
    { PyNone, PyInt(5), PyList(<< >>), PyDict(<< >>),
      PyDict(<< << "amount", PyInt(100) >> >>),
      PyDict(<< << "amount", PyStr("x") >> >>),
      PyDict(<< << "wrong_field", PyStr("value") >> >>) }

ValidateEventPayloadCall ==
    /\ call.fn = "validate_event_payload"
    /\ ~ret.done
    /\ ret' = [done |-> TRUE,
               value |-> ValidateEventPayloadIn(call.schemas, call.contract,
                                                call.event_type, call.payload)]
    /\ UNCHANGED << call, mode, wsvars, last_indexed_ledger, ContractEvent, horizon_cursor, fanout,
                    task, runs, hookvars, alertvars >>

InitValidate ==
    /\ mode = "validate"
    /\ NoConnections
    /\ StoreIdle
    /\ NoAlerts
    /\ call \in [fn : {"validate_event_payload"}, schemas : SchemaTables,
                 contract : {"c1"}, event_type : {"swap", "mint", "unknown_event"},
                 payload : ValidatedPayloads]
    /\ ret = [done |-> FALSE]

SpecValidate == InitValidate /\ [][ValidateEventPayloadCall]_vars

\* ------------------------------------------------------------------------
\* _extract_event_index on its own: events as the RPC client hands them over
\* ------------------------------------------------------------------------
RECURSIVE EventAttr(_, _, _)
\* _event_attr: the value under the first of the names the event has.
EventAttr(event, names, default) ==
    IF names = << >> THEN default
    ELSE IF HasKey(event, names[1]) THEN DictGet(event, names[1])
    ELSE EventAttr(event, Tail(names), default)

\* int(value): an int is itself, a text of an optional sign and decimal
\* digits is its number; other texts raise ValueError, other types TypeError.
IntOf(value) ==
    CASE value.py = "int" -> [ok |-> TRUE, v |-> value.v]
      [] value.py = "str" -> Float(value.v)
      [] OTHER -> [ok |-> FALSE]

\* _safe_int
SafeInt(value, default) == IF IntOf(value).ok THEN IntOf(value).v ELSE default

\* The operand of "x or ''" that is replaced.
Falsy(value) ==
    \/ value.py = "none"
    \/ value.py = "int" /\ value.v = 0
    \/ value.py \in {"str", "list", "dict"} /\ value.v = << >>

\* str.isdigit()
IsDigit(text) == text # << >> /\ \A i \in DOMAIN text : text[i] \in Range(DigitChars)

\* The part of the text before its first separator.
SplitFirst(text, sep) == Split(text, sep)[1]

\* text.rsplit(sep, maxsplit=1)[-1]: the part after the last separator.
RSplitLast(text, sep) == Split(text, sep)[Len(Split(text, sep))]

\* _extract_event_index over the attributes of an event.
ExtractEventIndexFrom(event, fallback_index) ==
    LET direct_index == EventAttr(event, << "event_index", "index" >>, PyNone)
        found        == EventAttr(event, << "id", "paging_token" >>, PyStr(<< >>))
        identifier   == Str(IF Falsy(found) THEN PyStr(<< >>) ELSE found)
        maybe_index  == RSplitLast(identifier, "-")
    IN  IF direct_index # PyNone THEN SafeInt(direct_index, fallback_index)
        ELSE IF Contains(identifier, << "-" >>) /\ IsDigit(maybe_index)
             THEN DigitsValue(maybe_index)
             ELSE fallback_index

\* Values of the explicit index attribute, each with the integer it stands
\* for (None when it stands for none).
IndexValues ==
    << << PyNone, None >>, << PyInt(0), 0 >>, << PyInt(4), 4 >>,
       << PyInt(2), 2 >>, << PyStr(<< "7" >>), 7 >>, << PyStr(<< "a", "b" >>), None >>,
       << PyList(<< >>), None >> >>

\* Values of the identifier attribute, each with the number after its last
\* '-' (None when there is no such number).
IdentifierValues ==
    << << PyNone, None >>,
       << PyStr(<< "1", "2", "-", "3", "4", "-", "5" >>), 5 >>,
       << PyStr(<< "0", "0", "7", "-", "0", "1", "2" >>), 12 >>,
       << PyStr(<< "a", "b", "c" >>), None >>,
       << PyStr(<< "9", "-" >>), None >>,
       << PyStr(<< "3", "-", "b" >>), None >>,
       << PyStr(<< "4", "2" >>), None >>,
       << PyInt(9), None >>,
       << PyInt(0 - 7), 7 >> >>

\* The value in row i of a table; row 0 stands for a missing attribute.
ValueAt(table, i) == IF i = 0 THEN PyNone ELSE table[i][1]

\* The events: each attribute missing or holding one of the values above.
IndexedEvents ==
    { LET has == SelectSeq(<< << "event_index", ValueAt(IndexValues, a), a >>,
                              << "index", PyInt(2), b >>,
                              << "id", ValueAt(IdentifierValues, c), c >>,
                              << "paging_token", PyStr(<< "8", "-", "6" >>), d >> >>,
                           LAMBDA item : item[3] # 0)
      IN  PyDict([i \in DOMAIN has |-> << has[i][1], has[i][2] >>])
      : a \in 0 .. Len(IndexValues), b \in 0 .. 1,
        c \in 0 .. Len(IdentifierValues), d \in 0 .. 1 }

ExtractEventIndexCall ==
    /\ call.fn = "_extract_event_index"
    /\ ~ret.done
    /\ ret' = [done |-> TRUE, value |-> ExtractEventIndexFrom(call.event, call.fallback_index)]
    /\ UNCHANGED << call, mode, wsvars, last_indexed_ledger, ContractEvent, horizon_cursor, fanout,
                    task, runs, hookvars, alertvars >>

InitIndex ==
    /\ mode = "event_index"
    /\ NoConnections
    /\ StoreIdle
    /\ NoAlerts
    /\ call \in [fn : {"_extract_event_index"}, event : IndexedEvents,
                 fallback_index : {0, 3}]
    /\ ret = [done |-> FALSE]

SpecIndex == InitIndex /\ [][ExtractEventIndexCall]_vars

\* ------------------------------------------------------------------------
\* SubscriptionRateLimitMiddleware: concurrent websocket connections per IP
\* ------------------------------------------------------------------------
MAX_SUBSCRIPTIONS_PER_IP == 5

\* _get_client_ip: the first address of X-Forwarded-For, else the address
\* of the peer, else "unknown"; an absent header or peer is "".
GetClientIp(scope) ==
    IF scope.forwarded_for # "" THEN scope.forwarded_for
    ELSE IF scope.client # "" THEN scope.client
    ELSE "unknown"

\* A limit that lets one more connection in.
LimitExceeded(active) == active > MAX_SUBSCRIPTIONS_PER_IP

\* Line 36: has the address too many active subscriptions?
RateLimitExceeded(active) == active >= MAX_SUBSCRIPTIONS_PER_IP

\* The scopes connections arrive with.
Scopes ==
    [type : {"websocket", "http"}, forwarded_for : ClientIps \cup {""}, client : {"ip2"}]

\* Lines 27-55, up to the await of the wrapped app or the return: a scope
\* that is no websocket goes to the app uncounted; a websocket over the
\* limit is closed with 4429; any other is counted and goes to the app.
Connect(c, scope) ==
    LET client_ip == GetClientIp(scope)
        conn      == [IdleConnection EXCEPT !.type = scope.type, !.client_ip = client_ip]
    IN
    /\ connection[c].pc = "idle"
    /\ IF scope.type # "websocket"
       THEN /\ connection' = [connection EXCEPT ![c] = [conn EXCEPT !.pc = "app"]]
            /\ UNCHANGED active_subscriptions
       ELSE IF RateLimitExceeded(active_subscriptions[client_ip])
       THEN /\ connection' = [connection EXCEPT ![c] =
                                [IdleConnection EXCEPT !.outcome = "closed",
                                                       !.close_code = 4429]]
            /\ UNCHANGED active_subscriptions
       ELSE /\ active_subscriptions' =
                  [active_subscriptions EXCEPT ![client_ip] = @ + 1]
            /\ connection' = [connection EXCEPT ![c] = [conn EXCEPT !.pc = "app"]]
    /\ UNCHANGED << mode, last_indexed_ledger, ContractEvent, horizon_cursor, fanout, task,
                    runs, hookvars, alertvars, purevars >>

\* Lines 57-62: the finally block; a counter that reaches 0 is deleted, and
\* a deleted counter reads as 0.
Decremented(active) == IF active - 1 <= 0 THEN 0 ELSE active - 1

\* The wrapped app returns or raises; for a websocket the finally block runs
\* before the result or the exception leaves the middleware.
AppEnds(c, outcome) ==
    LET conn == connection[c]
    IN
    /\ conn.pc = "app"
    /\ connection' = [connection EXCEPT ![c] = [IdleConnection EXCEPT !.outcome = outcome]]
    /\ active_subscriptions' =
         IF conn.type = "websocket"
         THEN [active_subscriptions EXCEPT ![conn.client_ip] = Decremented(@)]
         ELSE active_subscriptions
    /\ UNCHANGED << mode, last_indexed_ledger, ContractEvent, horizon_cursor, fanout, task,
                    runs, hookvars, alertvars, purevars >>

AppReturns(c) == AppEnds(c, "returned")

AppRaises(c) == AppEnds(c, "raised")

WsNext ==
    \E c \in DOMAIN connection :
        \/ \E scope \in Scopes : Connect(c, scope)
        \/ AppReturns(c)
        \/ AppRaises(c)

InitWs ==
    /\ mode = "websocket"
    /\ StoreIdle
    /\ NoAlerts
    /\ NoCall
    /\ NoConnections

SpecWs == InitWs /\ [][WsNext]_vars

\* ------------------------------------------------------------------------
\* Live sync under the beat schedule, with an upstream that answers
\* ------------------------------------------------------------------------
\* celery beat: the periodic sync_events_from_horizon.delay(), as often as a
\* worker slot is free.
BeatSync(t) ==
    /\ FirstFree(t)
    /\ Sched(t)
    /\ task' = [task EXCEPT ![t] = [IdleTask EXCEPT !.kind = "sync", !.pc = "queued"]]
    /\ UNCHANGED << purevars, alertvars, hookvars, mode, wsvars, runs, last_indexed_ledger,
                    ContractEvent, horizon_cursor, fanout >>

BeatStep(t) ==
    \/ BeatSync(t)
    \/ SyncFetchOk(t)
    \/ SyncEvent(t)
    \/ SyncCursor(t)
    \/ SyncFinish(t)

BeatNext == \E t \in Slots : BeatStep(t)

InitBeat == InitState /\ mode = "interleaved"

\* The beat goes on scheduling, the upstream answers every call, and a
\* worker that has taken a task runs it to its end.
SpecBeat ==
    /\ InitBeat
    /\ [][BeatNext]_vars
    /\ \A t \in Slots : WF_vars(BeatStep(t))

\* ------------------------------------------------------------------------
\* Properties
\* ------------------------------------------------------------------------
Globals == << last_indexed_ledger, ContractEvent, horizon_cursor, fanout >>

\* The candidate of the upsert call a backfill task is in.
CurrentCandidate(r) == Candidate(UpstreamEvents[r.batch_events[r.i]], r.i - 1)

InUpsert(t) == task[t].kind = "backfill" /\ task[t].pc \in {"upsert", "insert"}

\* Rows of a table under the key of candidate c.
RowsOfKey(table, contract_id, c) ==
    Copies(table, KeyLookup(table, contract_id, c.ledger, c.event_index))

\* C1: in every reachable state, under any interleaving of live-sync runs,
\* backfill runs and their retries, the table holds at most one row for
\* each (contract, ledger, event_index).
C1_UniqueNaturalKey ==
    \A r \in BagToSet(ContractEvent) :
        Copies(ContractEvent,
               KeyLookup(ContractEvent, r.contract, r.ledger, r.event_index)) = 1

\* Two upserts of one key in flight: a task whose lookup found nothing is
\* about to insert a key that another task has inserted meanwhile.
C1_Witness ==
    \E t \in Slots :
        /\ task[t].kind = "backfill" /\ task[t].pc = "insert"
        /\ RowsOfKey(ContractEvent, task[t].contract_id, CurrentCandidate(task[t])) = 1

\* An upsert call that replays a key whose row an earlier upsert call has
\* written with the candidate's data (no row comes from live sync, which
\* schedules a fan-out for every row it inserts).
ReplayCall(t) ==
    /\ InUpsert(t)
    /\ fanout = EmptyBag
    /\ LET c == CurrentCandidate(task[t])
       IN  \E row \in KeyLookup(ContractEvent, task[t].contract_id, c.ledger, c.event_index) :
              /\ row.tx_hash = c.tx_hash /\ row.event_type = c.event_type
              /\ row.payload = c.payload /\ row.raw_xdr = c.raw_xdr

\* The upsert call of task t returns in this step.
CallReturns(t) == InUpsert(t) /\ task'[t].pc \in {"upsert", "save"} /\ task'[t].i # task[t].i

CeilDiv(a, b) == (a + b - 1) \div b

\* C3: a backfill that finds no prior cursor and whose fetches all succeed
\* makes ceil((e - s + 1) / 200) fetch calls and ends with the cursor at e;
\* the same range run again after a successful run returns at once, with no
\* fetch call and no change to the table.
C3_FetchCount ==
    [][\A t \in Slots :
          /\ ( /\ task[t].kind = "backfill" /\ task[t].pc = "save" /\ task'[t].pc = "done"
               /\ task[t].start_cursor = None
               /\ task[t].retries = 0 /\ ~task[t].restarted
               => /\ Len(task[t].windows)
                       = CeilDiv(task[t].to_ledger - task[t].from_ledger + 1, 200)
                  /\ last_indexed_ledger'[task[t].contract_id] = task[t].to_ledger )
          /\ ( /\ task[t].kind = "backfill" /\ task[t].pc = "queued" /\ task[t].rerun
               /\ task'[t] # task[t]
               => /\ task'[t].pc = "done"
                  /\ ContractEvent' = ContractEvent )]_vars

\* The second run of a range has returned.
C3_Witness ==
    \E t \in Slots : task[t].kind = "backfill" /\ task[t].pc = "done" /\ task[t].rerun

\* C4: when task executions run one after another, no step lowers a
\* contract's last_indexed_ledger (None being below every ledger).
C4_MonotonicCursor ==
    [][\A c \in TrackedIds : last_indexed_ledger'[c] >= last_indexed_ledger[c]]_vars

\* Live sync is at the cursor step for an event older than the cursor.
C4_Witness ==
    \E t \in Slots :
        /\ task[t].kind = "sync" /\ task[t].pc = "cursor"
        /\ UpstreamEvents[task[t].batch_events[task[t].i]].ledger
              < last_indexed_ledger[UpstreamEvents[task[t].batch_events[task[t].i]].contract_id]

\* C5 as stated: also when tasks interleave, every step that writes
\* last_indexed_ledger writes a value above the stored one.
C5_ConcurrentMonotonicCursor ==
    [][\A c \in TrackedIds :
          last_indexed_ledger'[c] # last_indexed_ledger[c]
             => last_indexed_ledger'[c] > last_indexed_ledger[c]]_vars

\* C6: the first window of a backfill starts at
\* max(from_ledger, cursor read at start + 1), no window of the run starts
\* at or below that cursor, and a run whose resume point exceeds to_ledger
\* returns without a fetch and without changing anything.
C6_ResumePoint ==
    /\ [](\A t \in Slots :
            task[t].kind = "backfill" /\ task[t].windows # << >> =>
               /\ task[t].windows[1][1]
                    = IF task[t].start_cursor # None
                         /\ task[t].start_cursor + 1 > task[t].from_ledger
                      THEN task[t].start_cursor + 1 ELSE task[t].from_ledger
               /\ \A k \in 1 .. Len(task[t].windows) :
                     task[t].windows[k][1] > task[t].start_cursor)
    /\ [][\A t \in Slots :
            /\ task[t].kind = "backfill" /\ task[t].pc = "queued"
            /\ task[t].contract_id \in TrackedIds
            /\ 0 < task[t].from_ledger /\ task[t].from_ledger <= task[t].to_ledger
            /\ last_indexed_ledger[task[t].contract_id] + 1 > task[t].to_ledger
            /\ task'[t] # task[t]
            => task'[t].pc = "done" /\ UNCHANGED Globals]_vars

\* A run that resumed behind a cursor at or above its from_ledger.
C6_Witness ==
    \E t \in Slots :
        /\ task[t].kind = "backfill" /\ task[t].windows # << >>
        /\ task[t].start_cursor # None
        /\ task[t].start_cursor >= task[t].from_ledger

\* C7: within one run the windows are contiguous, in increasing order, at
\* most 200 ledgers each and inside the range; when the next window is
\* about to be fetched the cursor is stored as the end of the window before
\* it, and while a window is processed the cursor is the end of the one
\* before it.
C7_Windows ==
    \A t \in Slots :
        task[t].kind = "backfill" =>
          LET w == task[t].windows
              n == Len(w)
          IN  /\ \A k \in 1 .. n :
                    /\ w[k][1] <= w[k][2]
                    /\ w[k][2] - w[k][1] + 1 <= 200
                    /\ w[k][2] <= task[t].to_ledger
              /\ \A k \in 1 .. n - 1 : w[k + 1][1] = w[k][2] + 1
              /\ task[t].pc = "fetch" /\ n > 0 =>
                    /\ last_indexed_ledger[task[t].contract_id] = w[n][2]
                    /\ task[t].batch_start = w[n][2] + 1
              /\ task[t].pc \in {"upsert", "insert", "save"} /\ n > 1 =>
                    last_indexed_ledger[task[t].contract_id] = w[n - 1][2]

\* The window before the one about to be fetched returned no events.
C7_Witness ==
    \E t \in Slots :
        /\ task[t].kind = "backfill" /\ task[t].pc = "fetch"
        /\ Len(task[t].windows) = 1
        /\ GetEventsRange(task[t].contract_id,
                          task[t].windows[1][1], task[t].windows[1][2]) = << >>

\* C8 as stated: a backfill started again after a kill fetches again at
\* most the last window the killed execution had requested, and ends with
\* the table and the cursor of a run that was never interrupted.
C8_KillAndRestart ==
    [][\A t \in Slots :
          /\ ( /\ task[t].kind = "backfill" /\ task[t].restarted
               /\ task[t].pc = "queued" /\ task[t].last_start > 0
               /\ task'[t].pc = "fetch"
               => task'[t].batch_start >= task[t].last_start )
          /\ ( /\ task[t].kind = "backfill" /\ task[t].restarted
               /\ task[t].pc # "done" /\ task'[t].pc = "done"
               => /\ ContractEvent' = RunWindows(task[t].rows0, task[t].contract_id,
                                                 task[t].first_ledger, task[t].to_ledger)
                  /\ last_indexed_ledger'[task[t].contract_id] = task[t].to_ledger )]_vars

\* C9: a failed fetch leaves the cursor where it is, at the end of the last
\* window processed, below the window that failed; the task is queued again
\* with its retry counter raised, at most 3 times, and fails for good after
\* the third retry; a retry starts at the window whose fetch failed.
C9_RetryNoSkip ==
    /\ [](\A t \in Slots :
            task[t].kind = "backfill" =>
               /\ task[t].retries <= 3
               /\ task[t].pc = "queued" /\ task[t].retries > 0 =>
                     last_indexed_ledger[task[t].contract_id] < task[t].last_start)
    /\ [][\A t \in Slots :
            /\ ( /\ task[t].kind = "backfill" /\ task[t].pc = "fetch"
                 /\ task'[t].pc \in {"queued", "failed"}
                 => /\ last_indexed_ledger' = last_indexed_ledger
                    /\ task[t].retries < 3 =>
                          task'[t].pc = "queued" /\ task'[t].retries = task[t].retries + 1
                    /\ task[t].retries = 3 => task'[t].pc = "failed"
                    /\ last_indexed_ledger[task[t].contract_id]
                         = IF task[t].windows # << >>
                           THEN task[t].windows[Len(task[t].windows)][2]
                           ELSE task[t].start_cursor
                    /\ last_indexed_ledger[task[t].contract_id] < task[t].batch_start )
            /\ ( /\ task[t].kind = "backfill" /\ task[t].pc = "queued"
                 /\ task[t].retries > 0 /\ task'[t] # task[t]
                 => /\ task'[t].pc = "fetch"
                    /\ task'[t].batch_start = task[t].last_start )]_vars

\* The retries are exhausted on a window behind one that was processed.
C9_Witness ==
    \E t \in Slots :
        /\ task[t].kind = "backfill" /\ task[t].pc = "failed"
        /\ task[t].last_start > 1
        /\ last_indexed_ledger["c1"] = task[t].last_start - 1

\* C10: a request with a non-positive bound, with from_ledger > to_ledger
\* or for an unknown contract is rejected by its first step with a
\* ValueError, which changes nothing outside the task and queues no retry;
\* no such request ever executes.
C10_RejectedBeforeWork ==
    /\ [](\A t \in Slots :
            task[t].kind = "backfill" /\ Running(t) =>
               /\ task[t].contract_id \in TrackedIds
               /\ 0 < task[t].from_ledger /\ 0 < task[t].to_ledger
               /\ task[t].from_ledger <= task[t].to_ledger)
    /\ [][\A t \in Slots :
            /\ task[t].kind = "backfill" /\ task[t].pc = "queued"
            /\ \/ task[t].from_ledger <= 0
               \/ task[t].to_ledger <= 0
               \/ task[t].from_ledger > task[t].to_ledger
               \/ task[t].contract_id \notin TrackedIds
            /\ task'[t] # task[t]
            => /\ task'[t].pc = "rejected" /\ task'[t].error = "ValueError"
               /\ task'[t].retries = 0
               /\ UNCHANGED Globals]_vars

C10_Witness ==
    \E t \in Slots : task[t].kind = "backfill" /\ task[t].pc = "rejected"

\* C11: when the RPC call of a live-sync run fails, the run ends normally
\* and leaves the event table, the fan-out queue, the contract cursors and
\* the durable cursor as they were; the durable cursor changes only in the
\* last step of a run that has a row for every event the upstream returned
\* to it, and its new value is the ledger of the last of these events.
C11_RpcFailureAndCursor ==
    /\ [][\A t \in Slots :
            (/\ task[t].kind = "sync" /\ task[t].pc = "queued"
             /\ task'[t].pc = "done" /\ task'[t].error = "rpc")
            => UNCHANGED Globals]_vars
    /\ [][horizon_cursor' # horizon_cursor
          => \E t \in Slots :
               LET r == task[t]
                   n == Len(r.batch_events)
               IN  /\ r.kind = "sync" /\ r.pc = "finish" /\ task'[t].pc = "done"
                   /\ n > 0 /\ r.i = n
                   /\ \A k \in 1 .. n :
                        SyncLookup(UpstreamEvents[r.batch_events[k]]) # {}
                   /\ horizon_cursor' = UpstreamEvents[r.batch_events[n]].ledger]_vars

\* A run failed at the RPC call after an earlier run had stored rows and
\* written a durable cursor that differs from the first event's ledger.
C11_Witness ==
    /\ \E t \in Slots : task[t].kind = "sync" /\ task[t].pc = "done" /\ task[t].error = "rpc"
    /\ horizon_cursor = 240
    /\ ContractEvent # EmptyBag

\* C12: when a live-sync run ends without an RPC failure, every event the
\* upstream returned to it has a row of its own under the key (contract,
\* ledger, event_index), the index being the event's own or, when it has
\* none, its position in the response.
C12_SyncStoresEveryEvent ==
    [][\A t \in Slots :
         LET r == task[t]
         IN  (/\ r.kind = "sync" /\ r.pc \in {"event", "cursor", "finish"}
              /\ task'[t].pc = "done")
             => \A k \in 1 .. Len(r.batch_events) :
                  LET ev == UpstreamEvents[r.batch_events[k]]
                  IN  KeyLookup(ContractEvent', ev.contract_id, ev.ledger,
                                ExtractEventIndex(ev, k - 1)) # {}]_vars

\* Messages of the fan-out queue for the key of a row.
MessagesOfKey(row) ==
    { m \in BagToSet(fanout) : /\ m.contract_id = row.contract
                               /\ m.ledger = row.ledger
                               /\ m.event_index = row.event_index }

\* C13: every row of the event table, whichever task created it, has exactly
\* one fan-out message, and re-observing its event adds none.
C13_OneFanoutPerRow ==
    \A row \in BagToSet(ContractEvent) :
       /\ Cardinality(MessagesOfKey(row)) = 1
       /\ \A m \in MessagesOfKey(row) : CopiesIn(m, fanout) = 1

\* C14: when the fan-out step handles the message of an event that has a
\* row, it schedules one delivery for each existing subscription of the
\* event's contract that is active (is_active and status active) and whose
\* filter is the event's type or empty, and changes no other delivery.
C14_FanoutSchedulesMatching ==
    [][\A m \in BagToSet(fanout) :
         CopiesIn(m, fanout') < CopiesIn(m, fanout)
         => \A row \in KeyLookup(ContractEvent, m.contract_id, m.ledger, m.event_index) :
              \A k \in DeliveryKeys :
                 LET s == k[1]
                 IN  IF /\ k[2] = EventPk(row)
                        /\ subscription[s].exists
                        /\ Subscriptions[s].contract = row.contract
                        /\ subscription[s].is_active
                        /\ subscription[s].status = "active"
                        /\ (\/ Subscriptions[s].event_type = row.event_type
                            \/ Subscriptions[s].event_type = "")
                     THEN /\ delivery[k].pc = "none"
                          /\ delivery'[k].pc = "queued" /\ delivery'[k].retries = 0
                     ELSE delivery'[k] = delivery[k]]_vars

\* Both messages have been handled: the transfer went to s1 and s2, the
\* mint, handled after s2 was suspended, to nobody, and the subscriptions
\* with another filter or another contract have no delivery.
C14_Witness ==
    /\ fanout = EmptyBag
    /\ delivery[<< "s1", "t1" >>].pc # "none"
    /\ delivery[<< "s2", "t1" >>].pc # "none"
    /\ subscription["s2"].status = "suspended"
    /\ \A k \in DeliveryKeys :
         (k[1] \in {"s3", "s4"} \/ k[2] # "t1") => delivery[k].pc = "none"

\* C15: a delivery attempt that starts while its subscription is missing,
\* inactive or suspended, or while its event has no row, ends at once with
\* the result False: no POST, no delivery-log row, no change to any
\* subscription, no retry.
C15_SkipIsSilent ==
    [][\A k \in DeliveryKeys :
         (/\ delivery[k].pc = "queued" /\ delivery'[k] # delivery[k]
          /\ \/ ~ subscription[k[1]].exists
             \/ ~ subscription[k[1]].is_active
             \/ subscription[k[1]].status # "active"
             \/ \A row \in BagToSet(ContractEvent) : EventPk(row) # k[2])
         => /\ delivery'[k].pc = "skipped" /\ delivery'[k].result = "False"
            /\ delivery'[k].retries = delivery[k].retries
            /\ posts' = posts
            /\ delivery_log' = delivery_log
            /\ subscription' = subscription]_vars

\* A retry that found its subscription deleted and was skipped.
C15_Witness ==
    \E k \in DeliveryKeys :
       /\ delivery[k].pc = "skipped" /\ delivery[k].result = "False"
       /\ delivery[k].retries > 0
       /\ ~ subscription[k[1]].exists

\* C16: an attempt answered with any 2xx status is a success: its log row
\* says so, and it ends with the result True and without a retry, the
\* subscription's failure_count being 0 and last_triggered stamped.
C16_AnySuccessResets ==
    [][\A k \in DeliveryKeys :
         /\ (/\ delivery[k].pc = "post" /\ delivery'[k].pc # "post"
             /\ delivery'[k].status_code \in 200 .. 299)
            => /\ delivery'[k].pc = "success"
               /\ BagIn([subscription |-> k[1], event |-> k[2],
                         attempt_number |-> delivery[k].retries + 1,
                         status_code |-> delivery'[k].status_code,
                         success |-> TRUE], delivery_log')
         /\ (delivery[k].pc = "success" /\ delivery'[k] # delivery[k])
            => /\ delivery'[k].pc = "delivered" /\ delivery'[k].result = "True"
               /\ subscription'[k[1]].failure_count = 0
               /\ subscription'[k[1]].last_triggered = Now
               /\ subscription'[k[1]].is_active = subscription[k[1]].is_active
               /\ subscription'[k[1]].status = subscription[k[1]].status
               /\ posts' = posts /\ delivery_log' = delivery_log]_vars

\* A delivery that failed twice and was then answered 204: it is delivered
\* and the counter is back at 0.
C16_Witness ==
    \E k \in DeliveryKeys :
       /\ delivery[k].pc = "delivered" /\ delivery[k].result = "True"
       /\ delivery[k].retries = 2
       /\ BagIn(LogRow(k[1], k[2], 2, 204), delivery_log)
       /\ subscription[k[1]].failure_count = 0
       /\ subscription[k[1]].last_triggered # None

\* C17: every attempt that ends in a non-2xx response or in a network
\* error is counted as a failure, failure_count growing by one, and, unless
\* it was the last attempt allowed, the same delivery is queued again with
\* one more retry.
C17_FailureCountsAndRetries ==
    [][\A k \in DeliveryKeys :
         /\ (/\ delivery[k].pc = "post" /\ delivery'[k].pc # "post"
             /\ delivery'[k].status_code \notin 200 .. 299)
            => delivery'[k].pc = "count"
         /\ (delivery[k].pc = "count" /\ delivery'[k] # delivery[k])
            => /\ subscription'[k[1]].failure_count
                    = subscription[k[1]].failure_count + 1
               /\ delivery[k].retries < webhook_max_retries
                  => /\ delivery'[k].pc = "queued"
                     /\ delivery'[k].retries = delivery[k].retries + 1]_vars

\* Log rows of delivery k with attempt number n.
LogRowsOf(k, n) ==
    { x \in BagToSet(delivery_log) :
        x.subscription = k[1] /\ x.event = k[2] /\ x.attempt_number = n }

\* Attempts of delivery k that have reached the network step.
AttemptsMade(k) ==
    IF delivery[k].pc \in {"none", "queued", "post", "skipped"}
    THEN delivery[k].retries
    ELSE delivery[k].retries + 1

\* C18: while the subscription and the event of a delivery exist, the log
\* holds exactly one row for each attempt of the delivery that has reached
\* the network step, numbered retries + 1, and no other row of it; the row
\* of an attempt is there before its retry is queued.
C18_OneLogRowPerAttempt ==
    \A k \in DeliveryKeys :
       (/\ subscription[k[1]].exists
        /\ \E row \in BagToSet(ContractEvent) : EventPk(row) = k[2])
       => \A n \in 0 .. webhook_max_retries + 2 :
            IF 1 <= n /\ n <= AttemptsMade(k)
            THEN /\ Cardinality(LogRowsOf(k, n)) = 1
                 /\ \A x \in LogRowsOf(k, n) : CopiesIn(x, delivery_log) = 1
            ELSE LogRowsOf(k, n) = {}

\* A delivery waiting for its third retry after three network errors: three
\* rows without a status code.
C18_Witness ==
    \E k \in DeliveryKeys :
       /\ delivery[k].pc = "queued" /\ delivery[k].retries = 3
       /\ \A n \in 1 .. 3 : BagIn(LogRow(k[1], k[2], n - 1, None), delivery_log)

\* C19 as stated: a delivery makes at most 5 attempts, and once 5 of its
\* attempts have failed in a row its subscription is suspended and inactive.
C19_SuspendedAfterFive ==
    \A k \in DeliveryKeys :
       /\ AttemptsMade(k) <= 5
       /\ delivery[k].retries >= 5
          => /\ subscription[k[1]].status = "suspended"
             /\ ~ subscription[k[1]].is_active

\* C19: a delivery makes at most 6 attempts.  A subscription is suspended
\* by the failure of the 6th attempt of one of its deliveries, the five
\* before having failed as well; it is then suspended and inactive.  The
\* failure of an earlier attempt, the 5th included, suspends nothing.
C19_SuspendedAfterSix ==
    /\ [](\A k \in DeliveryKeys :
            /\ AttemptsMade(k) <= 6
            /\ delivery[k].pc = "exhausted"
               => /\ AttemptsMade(k) = 6
                  /\ subscription[k[1]].status = "suspended"
                  /\ ~ subscription[k[1]].is_active)
    /\ [][\A s \in SubIds :
            subscription'[s].status # subscription[s].status
            => /\ subscription'[s].status = "suspended"
               /\ ~ subscription'[s].is_active
               /\ \E k \in DeliveryKeys :
                    /\ k[1] = s /\ delivery[k].pc = "suspend"
                    /\ delivery[k].retries = 5
                    /\ \A n \in 1 .. 6 : \A x \in LogRowsOf(k, n) : ~ x.success]_vars
    /\ [][\A k \in DeliveryKeys :
            (/\ delivery[k].pc = "count" /\ delivery'[k] # delivery[k]
             /\ delivery[k].retries <= 4)
            => /\ delivery'[k].pc # "suspend"
               /\ subscription'[k[1]].status = subscription[k[1]].status
               /\ subscription'[k[1]].is_active = subscription[k[1]].is_active]_vars

\* A delivery has used its six attempts on 500 responses and its
\* subscription is suspended with six failures counted.
C19_Witness ==
    \E k \in DeliveryKeys :
       /\ delivery[k].pc = "exhausted" /\ delivery[k].retries = 5
       /\ BagIn(LogRow(k[1], k[2], 5, 500), delivery_log)
       /\ subscription[k[1]].status = "suspended"
       /\ subscription[k[1]].failure_count = 6

\* C20: a failing attempt suspends its subscription exactly when its retry
\* counter has reached max_retries: such an attempt goes on to one step
\* that sets status suspended and is_active false together, an attempt
\* with a smaller counter leaves both fields alone, and no other step of a
\* task changes either field.
C20_SuspendsExactlyOnLastAttempt ==
    [][/\ \A k \in DeliveryKeys :
            /\ (delivery[k].pc = "count" /\ delivery'[k] # delivery[k])
               => /\ subscription'[k[1]].status = subscription[k[1]].status
                  /\ subscription'[k[1]].is_active = subscription[k[1]].is_active
                  /\ (delivery'[k].pc = "suspend")
                       = (delivery[k].retries >= webhook_max_retries)
            /\ (delivery[k].pc = "suspend" /\ delivery'[k] # delivery[k])
               => /\ subscription'[k[1]].status = "suspended"
                  /\ subscription'[k[1]].is_active = FALSE
       /\ \A s \in SubIds :
            (/\ admin' = admin
             /\ \/ subscription'[s].status # subscription[s].status
                \/ subscription'[s].is_active # subscription[s].is_active)
            => /\ subscription'[s].status = "suspended"
               /\ subscription'[s].is_active = FALSE
               /\ \E k \in DeliveryKeys :
                    /\ k[1] = s /\ delivery[k].pc = "suspend"
                    /\ delivery[k].retries >= webhook_max_retries
                    /\ delivery'[k].pc # "suspend"]_vars

\* A subscription suspended by a delivery whose last attempt, like the
\* five before, met a network error.
C20_Witness ==
    \E k \in DeliveryKeys :
       /\ delivery[k].pc = "exhausted" /\ delivery[k].retries = webhook_max_retries
       /\ BagIn(LogRow(k[1], k[2], webhook_max_retries, None), delivery_log)
       /\ subscription[k[1]].status = "suspended"
       /\ ~ subscription[k[1]].is_active

\* C21: no step of a task (fan-out, a delivery attempt that is skipped,
\* succeeds or fails, live sync, backfill) and no deactivation or deletion
\* takes a suspended subscription back to status active or an inactive
\* suspended subscription back to is_active.
C21_SuspensionIsOneWay ==
    [][\A s \in SubIds :
         subscription[s].status = "suspended"
         => /\ subscription'[s].status = "suspended"
            /\ subscription'[s].is_active => subscription[s].is_active]_vars

\* A subscription suspended by one delivery while another delivery of it,
\* already past its lookups, was answered 2xx: the counter is reset and the
\* subscription stays suspended and inactive.
C21_Witness ==
    \E s \in SubIds :
       /\ subscription[s].status = "suspended" /\ ~ subscription[s].is_active
       /\ subscription[s].failure_count = 0
       /\ subscription[s].last_triggered = Now
       /\ \E k \in DeliveryKeys : k[1] = s /\ delivery[k].pc = "exhausted"
       /\ \E k \in DeliveryKeys : k[1] = s /\ delivery[k].pc = "delivered"

\* C22: an attempt answered 429 that is not the last one allowed has a
\* failure row in the log and is queued again; the delay of the retry is the
\* integer of the Retry-After header when there is one, and otherwise lies
\* on the exponential backoff schedule, i.e. within 2^retries seconds
\* capped at retry_backoff_max.
C22_RateLimitedDelay ==
    [][\A k \in DeliveryKeys :
         (/\ delivery[k].pc = "count" /\ delivery'[k] # delivery[k]
          /\ delivery[k].status_code = 429
          /\ delivery[k].retries < webhook_max_retries)
         => /\ BagIn([subscription |-> k[1], event |-> k[2],
                      attempt_number |-> delivery[k].retries + 1,
                      status_code |-> 429, success |-> FALSE], delivery_log')
            /\ delivery'[k].pc = "queued"
            /\ delivery'[k].retries = delivery[k].retries + 1
            /\ IF delivery[k].retry_after # None
               THEN delivery'[k].countdown.seconds = delivery[k].retry_after
               ELSE delivery'[k].countdown.seconds
                      <= Min(Pow2(delivery[k].retries), retry_backoff_max)]_vars

\* Failed attempts of delivery k whose failure has been counted.
Counted(k) ==
    IF delivery[k].pc \in {"suspend", "exhausted", "stopped"}
    THEN delivery[k].retries + 1
    ELSE delivery[k].retries

RECURSIVE SumCounted(_)
SumCounted(keys) ==
    IF keys = {} THEN 0
    ELSE LET k == CHOOSE x \in keys : TRUE
         IN  Counted(k) + SumCounted(keys \ {k})

\* C23: as long as no delivery of a subscription has succeeded, its
\* failure_count is the number of failed attempts counted by all its
\* deliveries together, however their steps interleave.
C23_NoLostFailureCount ==
    \A s \in SubIds :
       (\A k \in DeliveryKeys : k[1] = s => delivery[k].pc # "delivered")
       => subscription[s].failure_count
            = SumCounted({ k \in DeliveryKeys : k[1] = s })

\* An attempt is about to count its failure with an object loaded before
\* another delivery of the same subscription counted one.
C23_Witness ==
    \E k1, k2 \in DeliveryKeys :
       /\ k1 # k2 /\ k1[1] = k2[1]
       /\ delivery[k1].pc = "count"
       /\ delivery[k1].loaded_count < subscription[k1[1]].failure_count
       /\ delivery[k2].retries >= 1 /\ delivery[k2].pc # "delivered"

\* C24: a delivery that has ended is delivered, or has used up its retries
\* and left its subscription suspended, or was skipped; it has not stopped
\* after a failed attempt in any other way.
C24_TerminalStates ==
    \A k \in DeliveryKeys :
       delivery[k].result # "none"
       => \/ delivery[k].pc = "delivered"
          \/ delivery[k].pc = "skipped"
          \/ /\ delivery[k].pc = "exhausted"
             /\ subscription[k[1]].status = "suspended"

\* The body the claim describes, written member by member in key order.
CanonicalBody(event) ==
    [json |-> "object",
     text |-> << << "contract_id", JsonDumps(PyStr(event.contract_id)) >>,
                 << "event_index", JsonDumps(PyInt(event.event_index)) >>,
                 << "event_type", JsonDumps(PyStr(event.event_type)) >>,
                 << "ledger", JsonDumps(PyInt(event.ledger)) >>,
                 << "payload", JsonDumps(event.payload) >>,
                 << "tx_hash", JsonDumps(PyStr(event.tx_hash)) >> >>]

\* C25: the signature header of a delivery is "sha256=" followed by the hex
\* HMAC-SHA256, keyed with the secret of the subscription, of exactly the
\* bytes sent as the body, and the body is the key-sorted JSON of
\* contract_id, event_type, payload, ledger, event_index and tx_hash.
C25_SignatureOverBody ==
    (call.fn = "dispatch_webhook" /\ ret.done) =>
        /\ ret.value.headers.XSoroScanSignature =
              << "sha256=", HmacHex(Encode(call.webhook.secret), ret.value.data) >>
        /\ ret.value.data = Encode(CanonicalBody(call.event))

C25_Witness ==
    /\ call.fn = "dispatch_webhook"
    /\ ret.done
    /\ call.webhook.secret = "k2"
    /\ Len(call.event.payload.v) = 3
    /\ ret.value.data[2].text[5][2].text[1][1] = "amount"

\* The reference semantics of a condition tree.  It is written over the
\* literals themselves: what each one reads as, which of them are numbers,
\* and which texts contain or begin with which.
RefText ==
    { << PyStr(<< "t", "r", "a", "n", "s", "f", "e", "r" >>), "transfer" >>, << PyStr(<< "m", "i", "n", "t" >>), "mint" >>,
      << PyStr(<< "T", "r", "a", "n", "s", "f", "e", "r" >>), "Transfer" >>, << PyStr(<< "T", "R", "A", "N", "S" >>), "TRANS" >>,
      << PyStr(<< "a", "b", "c" >>), "abc" >>, << PyStr(<< "N", "o", "n", "e" >>), "None" >>, << PyNone, "None" >>,
      << PyStr(<< "1", "0", "0" >>), "100" >>, << PyInt(100), "100" >>,
      << PyStr(<< "1", "5" >>), "15" >>, << PyInt(150), "150" >>, << PyInt(50), "50" >>,
      << PyList(<< PyInt(150), PyStr(<< "t", "r", "a", "n", "s", "f", "e", "r" >>) >>), "[150, 'transfer']" >> }

RefTextOf(value) == (CHOOSE p \in RefText : p[1] = value)[2]

RefNumbers == { << "100", 100 >>, << "15", 15 >>, << "150", 150 >>, << "50", 50 >> }

RefIsNumber(value) == \E p \in RefNumbers : p[1] = RefTextOf(value)

RefNumberOf(value) == (CHOOSE p \in RefNumbers : p[1] = RefTextOf(value))[2]

\* << text, part >>: text contains part, letter case ignored.
RefContains ==
    { << "transfer", "transfer" >>, << "transfer", "TRANS" >>,
      << "Transfer", "transfer" >>, << "Transfer", "TRANS" >>,
      << "150", "15" >>, << "150", "150" >>, << "abc", "abc" >> }

\* << text, part >>: text begins with part.
RefStartsWith ==
    { << "transfer", "transfer" >>, << "150", "15" >>, << "150", "150" >>,
      << "abc", "abc" >> }

\* The operator a node names, letter case ignored; "" for any other.
RefOp(node) ==
    IF "op" \notin DOMAIN node THEN ""
    ELSE CASE node.op \in { PyStr(<< "e", "q" >>), PyStr(<< "E", "Q" >>) } -> "eq"
           [] node.op = PyStr(<< "n", "e", "q" >>) -> "neq"
           [] node.op \in { PyStr(<< "g", "t" >>), PyStr(<< "G", "t" >>) } -> "gt"
           [] node.op = PyStr(<< "g", "t", "e" >>) -> "gte"
           [] node.op = PyStr(<< "l", "t" >>) -> "lt"
           [] node.op = PyStr(<< "l", "t", "e" >>) -> "lte"
           [] node.op = PyStr(<< "c", "o", "n", "t", "a", "i", "n", "s" >>) -> "contains"
           [] node.op = PyStr(<< "s", "t", "a", "r", "t", "s", "w", "i", "t", "h" >>) -> "startswith"
           [] node.op = PyStr(<< "i", "n" >>) -> "in"
           [] node.op \in { PyStr(<< "a", "n", "d" >>), PyStr(<< "A", "N", "D" >>) } -> "and"
           [] node.op = PyStr(<< "o", "r" >>) -> "or"
           [] node.op = PyStr(<< "n", "o", "t" >>) -> "not"
           [] OTHER -> ""

\* The value at a dot path of the i-th event data; null when the path
\* leads nowhere.
RefField(i, node) ==
    IF "field" \notin DOMAIN node THEN PyNone
    ELSE CASE node.field = << "t", "y", "p", "e" >> ->
                << PyStr(<< "t", "r", "a", "n", "s", "f", "e", "r" >>), PyStr(<< "t", "r", "a", "n", "s", "f", "e", "r" >>), PyStr(<< "m", "i", "n", "t" >>),
                   PyStr(<< "T", "r", "a", "n", "s", "f", "e", "r" >>) >>[i]
           [] node.field = << "p", "a", "y", "l", "o", "a", "d", ".",
                              "a", "m", "o", "u", "n", "t" >> ->
                << PyInt(150), PyInt(50), PyStr(<< "a", "b", "c" >>), PyNone >>[i]
           [] OTHER -> PyNone

RefCompare(op, current, literal) ==
    LET same == RefTextOf(current) = RefTextOf(literal)
        both == RefIsNumber(current) /\ RefIsNumber(literal)
    IN  CASE op = "eq"  -> same
          [] op = "neq" -> ~same
          [] op = "gt"  -> both /\ RefNumberOf(current) > RefNumberOf(literal)
          [] op = "gte" -> both /\ RefNumberOf(current) >= RefNumberOf(literal)
          [] op = "lt"  -> both /\ RefNumberOf(current) < RefNumberOf(literal)
          [] op = "lte" -> both /\ RefNumberOf(current) <= RefNumberOf(literal)
          [] op = "contains" ->
                current # PyNone
                /\ << RefTextOf(current), RefTextOf(literal) >> \in RefContains
          [] op = "startswith" ->
                current # PyNone
                /\ << RefTextOf(current), RefTextOf(literal) >> \in RefStartsWith
          [] op = "in" ->
                IF literal.py = "list" THEN \E j \in DOMAIN literal.v : literal.v[j] = current
                ELSE same
          [] OTHER -> FALSE

RECURSIVE RefEval(_, _)
RefEval(node, i) ==
    LET op == RefOp(node)
    IN  CASE op = "and" ->
                \A j \in DOMAIN Get(node, "conditions", << >>) :
                    RefEval(node.conditions[j], i)
          [] op = "or" ->
                \E j \in DOMAIN Get(node, "conditions", << >>) :
                    RefEval(node.conditions[j], i)
          [] op = "not" -> ~RefEval(Get(node, "condition", << >>), i)
          [] OTHER -> RefCompare(op, RefField(i, node), Get(node, "value", PyNone))

EventDataIndex(event_data) == CHOOSE i \in DOMAIN CondEventData : CondEventData[i] = event_data

\* C28: evaluate_condition returns what the reference semantics gives for
\* every condition tree and event data: and is the conjunction, or the
\* disjunction, not the negation, a comparison compares the field at the dot
\* path with the literal, and an unknown operator or a failed numeric
\* coercion gives false; it never raises.  The example tree is true for
\* amount 150 and false for amount 50.
C28_ConditionSemantics ==
    (call.fn = "evaluate_condition" /\ ret.done) =>
        /\ ret.value = PyBool(RefEval(call.condition, EventDataIndex(call.event_data)))
        /\ (call.condition = ExampleTree /\ call.event_data = CondEventData[1])
              => ret.value = "True"
        /\ (call.condition = ExampleTree /\ call.event_data = CondEventData[2])
              => ret.value = "False"

C28_Witness ==
    /\ call.fn = "evaluate_condition"
    /\ call.condition = ExampleTree
    /\ call.event_data = CondEventData[2]
    /\ ret.done
    /\ ret.value = "False"

\* The send_alert tasks queued for an event.
SendsFor(event_id) == { i \in DOMAIN alert_send : alert_send[i].event = event_id }

\* The rules an evaluation of the event has to consider: active, of the
\* event's contract, and among the first hundred of these by id.
Considered(event) ==
    LET Eligible(id) == alert_rule[id].contract = event.contract /\ alert_rule[id].is_active
    IN  { id \in DOMAIN alert_rule :
            /\ Eligible(id)
            /\ Cardinality({ o \in 1 .. (id - 1) : Eligible(o) }) < 100 }

\* C26: an evaluation of an event considers exactly the active rules of the
\* event's contract, at most 100 in ascending id order, queues exactly one
\* send for each of them whose condition is true, whatever the evaluation
\* of the other rules did, and returns the number of sends queued; for a
\* missing event it queues nothing and returns 0.
C26_EvaluateAlertRules ==
    \A event_id \in DOMAIN alert_eval :
        LET found == { row \in BagToSet(ContractEvent) : EventPk(row) = event_id }
            sends == SendsFor(event_id)
        IN  IF found = {}
            THEN alert_eval[event_id] = 0 /\ sends = {}
            ELSE LET event == CHOOSE row \in found : TRUE
                     true  == { id \in Considered(event) :
                                  EvaluateCondition(alert_rule[id].condition,
                                                    AlertEventData(event)) = "True" }
                 IN  /\ { alert_send[i].rule : i \in sends } = true
                     /\ Cardinality(sends) = Cardinality(true)
                     /\ \A i, j \in sends :
                            i < j => alert_send[i].rule < alert_send[j].rule
                     /\ alert_eval[event_id] = Cardinality(sends)

C26_Witness ==
    /\ DOMAIN alert_eval = {"t1", "t2"}
    /\ Len(alert_rule) = 101
    /\ \A id \in DOMAIN alert_rule : alert_rule[id].is_active /\ alert_rule[id].contract = "c1"
    /\ alert_rule[101].condition = IsTransfer
    /\ alert_eval["t1"] = 1
    /\ alert_eval["t2"] = 0
    /\ { alert_send[i].rule : i \in SendsFor("t1") } = {1}

\* The AlertExecution rows of a task's rule and event, with a given status.
ExecutionsOf(t, status) ==
    LET row == [rule |-> t.rule, event |-> t.event, status |-> status]
    IN  IF BagIn(row, alert_execution) THEN CopiesIn(row, alert_execution) ELSE 0

\* C27: an execution of send_alert that attempts the alert writes exactly
\* one AlertExecution row, sent when the alert went out and failed when it
\* did not; a failed attempt is retried at most 5 times, each retry a new
\* attempt with its own row, and nothing is attempted after a sent row.
C27_OneRowPerAttempt ==
    /\ [][\A i \in DOMAIN alert_send :
            LET t == alert_send[i]
                u == alert_send'[i]
            IN  /\ t.pc = "sent" => u = t
                /\ u.attempts = t.attempts + 1 =>
                      /\ alert_execution' = alert_execution (+)
                            SetToBag({[rule |-> t.rule, event |-> t.event,
                                       status |-> IF u.outcome = "ok" THEN "sent"
                                                  ELSE "failed"]})
                      /\ u.pc = "sent" <=> u.outcome = "ok"
                      /\ u.pc = "queued" => u.outcome = "error" /\ u.retries = t.retries + 1
                /\ (u # t /\ u.attempts = t.attempts) =>
                      u.pc = "skipped" /\ alert_execution' = alert_execution]_vars
    /\ [](\A i \in DOMAIN alert_send :
            /\ alert_send[i].retries <= 5
            /\ alert_send[i].attempts <= 5 + 1
            /\ ExecutionsOf(alert_send[i], "sent") <= 1
            /\ alert_send[i].pc = "sent" => alert_send[i].outcome = "ok")

C27_Witness ==
    /\ Len(alert_send) = 2
    /\ alert_send[1].pc = "sent"
    /\ alert_send[1].retries = 5
    /\ ExecutionsOf(alert_send[1], "failed") = 5
    /\ ExecutionsOf(alert_send[1], "sent") = 1
    /\ alert_send[2].pc = "failed"
    /\ ExecutionsOf(alert_send[2], "failed") = 6

\* The definition a call decodes with: the first of the event type.
DefinitionOf(abi_json, event_type) ==
    LET matching == { i \in DOMAIN abi_json : abi_json[i].name = event_type }
    IN  abi_json[CHOOSE i \in matching : \A j \in matching : i <= j]

Defined(abi_json, event_type) == \E i \in DOMAIN abi_json : abi_json[i].name = event_type

\* C29: for a definition with n fields and a sequence root of m elements
\* the result has exactly the n field names as keys, field i holding the
\* decoded element i when i < m and null otherwise; for a root that is not
\* a sequence the first field is decoded from the root and the others are
\* null.  [10, 20] against a, b gives {a: 10, b: 20}, [10] gives
\* {a: 10, b: null}.
C29_PositionalMapping ==
    (/\ call.fn = "decode_event_payload"
     /\ ret.done
     /\ Defined(call.abi_json, call.event_type)
     /\ ~FromXdr(call.raw_xdr).raises) =>
        LET fields == DefinitionOf(call.abi_json, call.event_type).fields
            root   == FromXdr(call.raw_xdr).value
            n      == Len(fields)
            d      == ret.value.value
            IsSequence == root.sc = "vec" /\ "scv" \in DOMAIN root
        IN  /\ ret.value.kind = "return"
            /\ d.py = "dict"
            /\ Len(d.v) = n
            /\ { d.v[k][1] : k \in DOMAIN d.v } = { fields[k].name : k \in 1 .. n }
            /\ IsSequence =>
                  \A i \in 0 .. (n - 1) :
                      DictGet(d, fields[i + 1].name) =
                          IF i < Len(root.scv)
                          THEN DecodeScVal(root.scv[i + 1], fields[i + 1].type)
                          ELSE PyNone
            /\ (~IsSequence /\ n > 0) =>
                  /\ DictGet(d, fields[1].name) = DecodeScVal(root, fields[1].type)
                  /\ \A i \in 2 .. n : DictGet(d, fields[i].name) = PyNone
            /\ (call.abi_json = AbiJson /\ call.event_type = "pair") =>
                  /\ root = ScVec(<< ScI32(10), ScI32(20) >>) =>
                        d = PyDict(<< << "a", PyInt(10) >>, << "b", PyInt(20) >> >>)
                  /\ root = ScVec(<< ScI32(10) >>) =>
                        d = PyDict(<< << "a", PyInt(10) >>, << "b", PyNone >> >>)

C29_Witness ==
    /\ call.fn = "decode_event_payload"
    /\ ret.done
    /\ call.abi_json = AbiJson
    /\ call.event_type = "swap"
    /\ call.raw_xdr = ToXdr(ScVec(<< ScSymbol(<< "x" >>), ScBytes(<< 190, 239 >>) >>))
    /\ ret.value.value =
          PyDict(<< << "who", PyStr(<< "x" >>) >>,
                    << "data", PyStr(<< "b", "e", "e", "f" >>) >>,
                    << "amount", PyNone >> >>)

C32_DecodedAndValidatedOnCreation ==
    (\A t \in Slots : ~Running(t)) =>
        \A r \in BagToSet(ContractEvent) :
            LET d == TryDecode(r.contract, r.event_type, r.raw_xdr, r.payload)
                v == ValidateEventPayload(r.contract, r.event_type, r.payload)
            IN  /\ r.decoding_status = d.status
                /\ r.decoded_payload = d.decoded
                /\ r.validation_status = (IF v[1] THEN "passed" ELSE "failed")
                /\ r.schema_version = v[2]
                /\ r.payload_hash = << r.payload >>

\* C33: validate_event_payload never raises; for a structured payload and an
\* existing schema it answers with the highest version stored for (contract,
\* event_type), true when the payload validates against that schema and
\* false when it does not; without a schema, or for a payload that is not a
\* structured object, it answers (true, no version).
C33_ValidateEventPayload ==
    ret.done =>
        LET S == { s \in call.schemas : s.contract = call.contract
                                        /\ s.event_type = call.event_type }
        IN  /\ ~ret.value.raised
            /\ IF call.payload.py # "dict" \/ S = {}
               THEN ret.value.value = << TRUE, None >>
               ELSE \E s \in S :
                      /\ \A o \in S : o.version <= s.version
                      /\ ret.value.value[2] = s.version
                      /\ ret.value.value[1] \in BOOLEAN

\* The integer an attribute value stands for in a table of values.
RefNumber(table, value) == table[CHOOSE i \in DOMAIN table : table[i][1] = value][2]

\* The explicit index attribute of an event: event_index, or index when the
\* event has no event_index; null when it has neither.
RefExplicit(event) ==
    IF HasKey(event, "event_index") THEN DictGet(event, "event_index")
    ELSE IF HasKey(event, "index") THEN DictGet(event, "index")
    ELSE PyNone

\* The numeric suffix of the opaque identifier of an event: that of id, or
\* of paging_token when the event has no id; None when there is none.
RefSuffix(event) ==
    IF HasKey(event, "id") THEN RefNumber(IdentifierValues, DictGet(event, "id"))
    ELSE IF HasKey(event, "paging_token") THEN 6
    ELSE None

\* C34: the event index is the explicit index when the event carries one,
\* else the numeric suffix after the last '-' of its identifier when there
\* is one, else the caller's positional counter.  (An explicit index that is
\* present but stands for no integer gives the counter.)  The fallback chain
\* the upsert of the ingest model uses is this chain.
C34_EventIndexChain ==
    ret.done =>
        LET explicit == RefExplicit(call.event)
            number   == RefNumber(IndexValues, explicit)
            suffix   == RefSuffix(call.event)
        IN  /\ explicit # PyNone =>
                 ret.value = (IF number # None THEN number ELSE call.fallback_index)
            /\ (explicit = PyNone /\ suffix # None) => ret.value = suffix
            /\ (explicit = PyNone /\ suffix = None) => ret.value = call.fallback_index
            /\ (explicit = PyNone \/ number # None) =>
                 ret.value = ExtractEventIndex([event_index |-> number, id_suffix |-> suffix],
                                               call.fallback_index)

\* Reached: an event without an explicit index whose identifier has two
\* separators has taken the number after the last one, not the counter.
C34_Witness ==
    /\ ret.done
    /\ RefExplicit(call.event) = PyNone
    /\ HasKey(call.event, "id")
    /\ DictGet(call.event, "id") = PyStr(<< "1", "2", "-", "3", "4", "-", "5" >>)
    /\ call.fallback_index = 3
    /\ ret.value = 5

\* C35: whenever the fan-out step takes the message of an event that has its
\* row, alert-rule evaluation is scheduled exactly once for that event,
\* however many subscriptions match, none included.
C35_AlertEvaluationScheduledOnce ==
    [][\A m \in BagToSet(fanout) :
          ( /\ fanout' = fanout (-) SetToBag({m})
            /\ KeyLookup(ContractEvent, m.contract_id, m.ledger, m.event_index) # {} )
          => alerts' = alerts (+) SetToBag({m.tx_hash})]_vars

\* C36: live sync and backfill over the same upstream events, in either
\* order or interleaved, leave one row per upstream event: the table never
\* holds two rows for one event.
C36_OneRowPerUpstreamEvent ==
    \A k \in EventIds :
        Copies(ContractEvent,
               { r \in BagToSet(ContractEvent) : /\ r.contract = UpstreamEvents[k].contract_id
                                                 /\ r.ledger = UpstreamEvents[k].ledger
                                                 /\ r.tx_hash = UpstreamEvents[k].tx_hash }) <= 1

\* The websocket connections of an address that are inside the wrapped app.
InsideApp(ip) ==
    { c \in DOMAIN connection : /\ connection[c].pc = "app"
                                /\ connection[c].type = "websocket"
                                /\ connection[c].client_ip = ip }

\* C37: in every state the counter of each address is between 0 and 5 and
\* is the number of its websocket connections inside the wrapped app.  A
\* websocket enters the app only when the counter of its address is below
\* 5, and raises it by one; a connection that is turned away is closed with
\* code 4429 while a counter stands at 5, and no counter changes.  When a
\* websocket leaves the app, by return or by exception, the counter of its
\* address goes down by one.
C37_RateLimit ==
    /\ [](\A ip \in ClientIps :
             /\ 0 <= active_subscriptions[ip]
             /\ active_subscriptions[ip] <= 5
             /\ active_subscriptions[ip] = Cardinality(InsideApp(ip)))
    /\ [][\A c \in DOMAIN connection :
            LET before == connection[c]
                after  == connection'[c]
            IN  /\ (before.pc = "idle" /\ after.pc = "app" /\ after.type = "websocket") =>
                      /\ active_subscriptions[after.client_ip] < 5
                      /\ active_subscriptions' =
                           [active_subscriptions EXCEPT ![after.client_ip] = @ + 1]
                /\ (before.pc = "idle" /\ after.pc = "idle" /\ after # before) =>
                      /\ after.outcome = "closed" /\ after.close_code = 4429
                      /\ \E ip \in ClientIps : active_subscriptions[ip] = 5
                      /\ active_subscriptions' = active_subscriptions
                /\ (before.pc = "app" /\ after.pc = "idle") =>
                      /\ after.outcome \in {"returned", "raised"}
                      /\ before.type = "websocket" =>
                            active_subscriptions' =
                              [active_subscriptions EXCEPT ![before.client_ip] = @ - 1]
                      /\ before.type # "websocket" =>
                            active_subscriptions' = active_subscriptions]_vars

\* Five websockets of one address are inside the app and a sixth connection
\* has been closed with 4429.
C37_Witness ==
    /\ active_subscriptions["ip1"] = 5
    /\ \E c \in DOMAIN connection :
          connection[c].pc = "idle" /\ connection[c].close_code = 4429

\* C38: when a backfill over [from_ledger, to_ledger] returns successfully,
\* every event the upstream holds for the contract with a ledger in the range
\* has a row in the event table.
C38_BackfillComplete ==
    [][\A t \in Slots :
         LET r == task[t]
         IN  (r.kind = "backfill" /\ r.pc # "done" /\ task'[t].pc = "done") =>
                \A k \in EventIds :
                    ( /\ UpstreamEvents[k].contract_id = r.contract_id
                      /\ r.from_ledger <= UpstreamEvents[k].ledger
                      /\ UpstreamEvents[k].ledger <= r.to_ledger )
                    => \E row \in BagToSet(ContractEvent') :
                          /\ row.contract = r.contract_id
                          /\ row.ledger = UpstreamEvents[k].ledger
                          /\ row.tx_hash = UpstreamEvents[k].tx_hash]_vars

\* C40: once a subscription is suspended no delivery sends a POST to its
\* target, deliveries of other events that were under way or waiting for a
\* retry included.
C40_NoPostAfterSuspension ==
    [][\A k \in DeliveryKeys :
          (delivery[k].pc = "post" /\ delivery'[k].pc # "post" /\ posts' = posts + 1)
          => subscription[k[1]].status # "suspended"]_vars

\* The batches the upstream can answer a live-sync call with.
SyncBatches ==
    { SubSeq([k \in EventIds |-> k], 1, n) : n \in 1 .. Len(UpstreamEvents) }

\* C39: live sync does not get stuck on a batch.  Whenever a run has been
\* handed a batch, the durable cursor eventually stands at the last ledger
\* of that batch, or beyond it.
C39_SyncProgress ==
    \A B \in SyncBatches :
        (\E t \in Slots : /\ task[t].kind = "sync" /\ task[t].pc = "event"
                          /\ task[t].batch_events = B)
        ~> (horizon_cursor # None /\ horizon_cursor >= LastLedger(B))

====
